---------------------------- MODULE Spec2Model ----------------------------
(***************************************************************************)
(* Job scheduling and change-notification subsystem of BukaAmanzi:         *)
(*   - ETLManager (backend/app/services/etl_manager.py): priority job      *)
(*     queue, worker pool, cancel / retry, timeout sweep, start / stop;    *)
(*   - DataChangeNotifier (backend/app/realtime/notifier.py): connection   *)
(*     and subscription tables, broker publish, local fan-out;             *)
(*   - the sync entry points of one source (DataScheduler polling loop,    *)
(*     DataScheduler.trigger_immediate_sync, ETLManager._execute_dws_sync) *)
(*     over EnhancedDWSMonitor.poll_with_change_detection;                 *)
(*   - DataScheduler (backend/app/services/data_scheduler.py): the polling *)
(*     loops with their backoff, and the maintenance loop;                 *)
(*   - the change detector (backend/app/services/change_detection.py).     *)
(* Each part has its own specification over the module's variables; the    *)
(* variables of the other parts stay as Init leaves them:                  *)
(*   Spec       the job pool;                                              *)
(*   SpecApi    the pool with cancel_job's return value kept;              *)
(*   SpecRetry  the pool with retry_job's return value kept;               *)
(*   SpecQueue  the pool with the order of the queue kept;                 *)
(*   SpecNotify the notifier;                                              *)
(*   SpecAsk    the notifier with the subscribe calls kept;                *)
(*   SpecDrop   connect, subscribe and disconnect with its outcome kept;   *)
(*   SpecRelay  the broker listener relaying into the notifier;            *)
(*   SpecSync   the syncs of one source;                                   *)
(*   SpecSched  the scheduler's loops on a clock;                          *)
(*   SpecLive   the scheduler's loops and the pool's workers, untimed,     *)
(*              with fairness;                                             *)
(*   SpecSweep  the pool with handlers that never return, and the timeout  *)
(*              sweep, with fairness;                                      *)
(*   SpecHealth the scheduler's loops and the health check on a clock;     *)
(*   SpecTasks  the worker tasks told apart, over start and stop;          *)
(*   SpecLife   the scheduler's tasks told apart, over start and stop;     *)
(*   SpecNotice the polls of one monitor with failing notifications, with  *)
(*              fairness;                                                  *)
(*   SpecEcho   the notifier with the listener taking the process's own    *)
(*              published messages;                                        *)
(*   SpecClient the Treasury syncs of the loop and of a manual trigger     *)
(*              sharing one client object;                                 *)
(*   SpecKept   the size of the completed-job history;                     *)
(*   SpecConfig the scheduler's update_config;                             *)
(*   SpecDetect the change detector applied to any two records;            *)
(*   SpecPass   the DWS polling loop running the pass over fetched data.   *)
(* Code between two awaits runs atomically (one asyncio event loop), so an *)
(* action is the code from one suspension point to the next.               *)
(***************************************************************************)
EXTENDS Integers, Sequences, FiniteSets, TLC

\* ------------------------------------------------------------------ bounds
MaxJobs == 2            \* submit_job calls in one behaviour of Spec and SpecApi
MaxTicks == 1           \* clock ticks in one behaviour
MaxLimit == 2           \* largest limit asked of get_all_jobs
MaxRecords == 2         \* municipalities, and projects, in one fetched payload
MaxStarts == 2          \* start calls that create tasks in one behaviour

\* ------------------------------------------------------- program constants
max_concurrent_jobs == 3
max_retries == 3
job_timeout == 3600

\* One clock tick is two job timeouts long.
TickSeconds == 2 * job_timeout
\* submit_job calls in one behaviour of SpecQueue; also the size of the id
\* space, so that Spec and SpecApi always hold an id no job was created with.
QueueJobs == MaxJobs + 1

Priorities == {1, 5}
JobTypes == {"dws_sync", "unknown_type"}
KnownJobTypes == {"dws_sync", "treasury_sync", "correlation_analysis"}

PENDING == "pending"
RUNNING == "running"
SUCCESS == "success"
FAILED == "failed"
CANCELLED == "cancelled"

None == -1

VARIABLES
    \* ---- ETLManager
    running,          \* self.running
    stopping,         \* a stop() call is awaiting asyncio.gather
    job,              \* every ETLJob object created so far, by job id
    n_submitted,      \* number of submit_job calls so far (ids are fresh uuids)
    job_queue,        \* self.job_queue: the heap list of (priority, job) tuples
    active_jobs,      \* self.active_jobs: keys in insertion order
    completed_jobs,   \* self.completed_jobs: keys in insertion order
    worker,           \* the worker tasks of self.worker_tasks, counted by position
    metrics,          \* self.metrics counters
    now,              \* datetime.utcnow(), in seconds
    ret,              \* history: outcome of the latest cancel_job call
    pending_order,    \* history: ids waiting in the queue, in enqueue order
    last_get          \* history: what the latest job_queue.get() of a worker did

jobVars == <<running, stopping, job, n_submitted, job_queue, active_jobs,
             completed_jobs, worker, metrics, now>>
histVars == <<ret, pending_order, last_get>>

JobIds == 1..QueueJobs

\* ------------------------------------------------------------ dict helpers
\* A Python dict keeps its keys in insertion order; assigning an existing key
\* keeps its place.
InDict(d, k) == \E i \in DOMAIN d : d[i] = k
DictSet(d, k) == IF InDict(d, k) THEN d ELSE Append(d, k)
DictDel(d, k) == SelectSeq(d, LAMBDA x : x # k)

\* ------------------------------------------------------------------- ETLJob
NoJob ==
    [job_type |-> "none", priority |-> 0, status |-> "none",
     created_at |-> None, started_at |-> None, completed_at |-> None,
     error_message |-> "none", result |-> "none", retry_count |-> 0]

NewJob(t, p, created) ==
    [job_type |-> t, priority |-> p, status |-> PENDING,
     created_at |-> created, started_at |-> None, completed_at |-> None,
     error_message |-> "none", result |-> "none", retry_count |-> 0]

\* -------------------------------------------------- heapq on (priority, job)
\* Tuple comparison (priority, job) < (priority', job'): decided by the
\* priorities when they differ; on equal priorities Python compares the two
\* ETLJob objects, which define no ordering, and raises TypeError.
TupleLt(a, b) ==
    IF a.priority < b.priority THEN "lt"
    ELSE IF a.priority > b.priority THEN "ge"
    ELSE IF a.job = b.job THEN "ge"
    ELSE "TypeError"

Swap(h, i, j) == [h EXCEPT ![i] = h[j], ![j] = h[i]]

\* heapq._siftdown on 0-based positions; the list is h[pos + 1].
RECURSIVE SiftDown(_, _, _)
SiftDown(h, startpos, pos) ==
    IF pos > startpos
    THEN LET parentpos == (pos - 1) \div 2
             c == TupleLt(h[pos + 1], h[parentpos + 1])
         IN  IF c = "TypeError" THEN [heap |-> h, ok |-> FALSE]
             ELSE IF c = "lt"
                  THEN SiftDown(Swap(h, pos + 1, parentpos + 1), startpos, parentpos)
                  ELSE [heap |-> h, ok |-> TRUE]
    ELSE [heap |-> h, ok |-> TRUE]

\* heapq._siftup
RECURSIVE SiftUp(_, _, _)
SiftUp(h, startpos, pos) ==
    LET endpos == Len(h)
        limit == endpos \div 2
    IN  IF pos < limit
        THEN LET left == 2 * pos + 1
                 c == IF left + 1 < endpos
                      THEN TupleLt(h[left + 1], h[left + 2])
                      ELSE "lt"
                 childpos == IF c = "lt" THEN left ELSE left + 1
             IN  IF c = "TypeError" THEN [heap |-> h, ok |-> FALSE]
                 ELSE SiftUp(Swap(h, childpos + 1, pos + 1), startpos, childpos)
        ELSE SiftDown(h, startpos, pos)

\* heapq.heappush: the item is appended before the sift, and stays appended
\* when a comparison raises.
HeapPush(h, item) == SiftDown(Append(h, item), 0, Len(h))

\* heapq.heappop on a non-empty list: the last item is moved to the root before
\* the sift; when a comparison raises, the old root is dropped with the error.
HeapPop(h) ==
    LET lastelt == h[Len(h)]
        rest == SubSeq(h, 1, Len(h) - 1)
    IN  IF rest = <<>>
        THEN [heap |-> rest, ok |-> TRUE, item |-> lastelt]
        ELSE LET r == SiftUp([rest EXCEPT ![1] = lastelt], 0, 0)
             IN  [heap |-> r.heap, ok |-> r.ok, item |-> h[1]]

\* The pending job a worker is meant to take next: lowest priority value,
\* earliest enqueued among equals (position in pending_order).
RECURSIVE FirstMin(_, _)
FirstMin(order, prio) ==
    IF Len(order) = 1 THEN order[1]
    ELSE LET m == FirstMin(Tail(order), prio)
         IN  IF prio[order[1]] <= prio[m] THEN order[1] ELSE m


\* ------------------------------------------------------------- ETLManager
NoRet ==
    [op |-> "none", job |-> 0, pre |-> "none", post |-> "none", value |-> "none",
     listed |-> FALSE, count |-> 0, same |-> FALSE]
NoGet == [job |-> 0, expected |-> 0]

\* The worker tasks are identical, so they are counted by where they stand:
\* idle (awaiting job_queue.get()), paused (the loop's sleep(5) after an error),
\* handling (inside the handler of that job), cancelling (inside the handler of
\* that job, with the CancelledError of stop() not yet delivered).
NoWorkers == [idle |-> 0, paused |-> 0, handling |-> {}, cancelling |-> {}]

InitJobs ==
    /\ running = FALSE
    /\ stopping = FALSE
    /\ job = [i \in JobIds |-> NoJob]
    /\ n_submitted = 0
    /\ job_queue = <<>>
    /\ active_jobs = <<>>
    /\ completed_jobs = <<>>
    /\ worker = NoWorkers
    /\ metrics = [total_jobs_processed |-> 0, successful_jobs |-> 0, failed_jobs |-> 0]
    /\ now = 0

InitHist ==
    /\ ret = NoRet
    /\ pending_order = <<>>
    /\ last_get = NoGet

\* datetime.utcnow() advances.
Tick ==
    /\ now < MaxTicks * TickSeconds
    /\ now' = now + TickSeconds
    /\ UNCHANGED <<running, stopping, job, n_submitted, job_queue, active_jobs,
                   completed_jobs, worker, metrics>>

\* ETLManager.start (a start() overlapping a stop() that still awaits its
\* gather is followed in StartWorkers, with the worker tasks told apart).
Start ==
    /\ ~running
    /\ ~stopping
    /\ running' = TRUE
    /\ worker' = [NoWorkers EXCEPT !.idle = max_concurrent_jobs]
    /\ UNCHANGED <<stopping, job, n_submitted, job_queue, active_jobs,
                   completed_jobs, metrics, now>>

\* ETLManager.submit_job: a fresh id, the tuple pushed on the heap, then the
\* "submitted" notification.  A TypeError of the heap push or a failing
\* notify_change (published = FALSE) raises out of the call with the job queued.
SubmitJob(t, p, published) ==
    /\ n_submitted < QueueJobs
    /\ LET id == n_submitted + 1
           r == HeapPush(job_queue, [priority |-> p, job |-> id])
       IN  /\ n_submitted' = id
           /\ job' = [job EXCEPT ![id] = NewJob(t, p, now)]
           /\ job_queue' = r.heap
    /\ UNCHANGED <<running, stopping, active_jobs, completed_jobs, worker,
                   metrics, now>>

\* ETLManager.get_job_status, lines 186-209: the job is looked up in
\* active_jobs, then in completed_jobs; with neither holding it the call
\* returns None (none = TRUE), else a view of the job's fields.
GetJobStatus(id) ==
    IF InDict(active_jobs, id) \/ InDict(completed_jobs, id)
    THEN [none |-> FALSE, job_id |-> id, status |-> job[id].status,
          retry_count |-> job[id].retry_count]
    ELSE [none |-> TRUE, job_id |-> None, status |-> "none", retry_count |-> 0]

\* GET /jobs/{job_id} (api/v1/endpoints/etl.py 279-295): the HTTP status.
GetEtlJobStatus(id) == IF GetJobStatus(id).none THEN "404" ELSE "200"

\* ETLManager.cancel_job body on the job record (lines 232-233).
CancelledJob(j, t) == [j EXCEPT !.status = CANCELLED, !.completed_at = t]

\* ETLManager.cancel_job
CancelJob(id, published) ==
    /\ IF InDict(active_jobs, id)
       THEN /\ job' = [job EXCEPT ![id] = CancelledJob(job[id], now)]
            /\ completed_jobs' = DictSet(completed_jobs, id)
            /\ active_jobs' = DictDel(active_jobs, id)
       ELSE UNCHANGED <<job, completed_jobs, active_jobs>>
    /\ UNCHANGED <<running, stopping, n_submitted, job_queue, worker, metrics,
                   now>>

\* ETLManager.retry_job body on the job record (lines 259-264).
RetriedJob(j) ==
    [j EXCEPT !.status = PENDING, !.retry_count = j.retry_count + 1,
              !.started_at = None, !.completed_at = None,
              !.error_message = "none"]

\* A retry_job guard that forgets the retry limit.
CanRetryNoLimit(id) ==
    /\ InDict(completed_jobs, id)
    /\ job[id].status = FAILED

\* ETLManager.retry_job, lines 254-256: the job is in the history, failed, and
\* under its retry limit (every ETLJob has max_retries = 3).
CanRetry(id) ==
    /\ InDict(completed_jobs, id)
    /\ job[id].status = FAILED
    /\ job[id].retry_count < max_retries

\* ETLManager.retry_job: the job object itself is reset and pushed back on the
\* heap; it leaves completed_jobs only if the push did not raise.
RetryJob(id, published) ==
    /\ IF CanRetry(id)
       THEN LET r == HeapPush(job_queue, [priority |-> job[id].priority, job |-> id])
            IN  /\ job' = [job EXCEPT ![id] = RetriedJob(job[id])]
                /\ job_queue' = r.heap
                /\ completed_jobs' = IF r.ok THEN DictDel(completed_jobs, id)
                                     ELSE completed_jobs
       ELSE UNCHANGED <<job, job_queue, completed_jobs>>
    /\ UNCHANGED <<running, stopping, n_submitted, active_jobs, worker, metrics,
                   now>>

\* ETLManager._process_job, lines 356-358
StartedJob(j, t) == [j EXCEPT !.status = RUNNING, !.started_at = t]

\* ETLManager._process_job, lines 372-375
SucceededJob(j) == [j EXCEPT !.status = SUCCESS, !.result = "completed"]

\* A failure path that records the error but forgets the status.
FailedJobKeepsStatus(j) == [j EXCEPT !.error_message = "error"]

\* ETLManager._process_job, lines 388-390
FailedJob(j) == [j EXCEPT !.status = FAILED, !.error_message = "error"]

\* ETLManager._process_job, finally block, line 409
FinishedJob(j, t) == [j EXCEPT !.completed_at = t]

Bump(m, field) == [m EXCEPT ![field] = m[field] + 1]

\* A worker leaves the handler of job id: back to job_queue.get(), or, after
\* an exception reached the loop's "except Exception", into sleep(5).
LeaveHandler(wk, id, toPause) ==
    [wk EXCEPT !.handling = @ \ {id},
               !.idle = IF toPause THEN @ ELSE @ + 1,
               !.paused = IF toPause THEN @ + 1 ELSE @]

\* ETLManager._worker_loop: job_queue.get() of a waiting worker, then
\* _process_job up to the handler's first await.  A TypeError of the heap pop
\* is caught by the loop's "except Exception" (sleep 5): the popped root is lost.
\* An unknown job type raises at once, so the failure path and the finally
\* block run in the same step; notify_system_error is called with one
\* argument too many and raises TypeError, which the loop catches (sleep 5).
WorkerGet ==
    /\ worker.idle > 0
    /\ job_queue # <<>>
    /\ LET r == HeapPop(job_queue)
           id == r.item.job
           pause == [worker EXCEPT !.idle = @ - 1, !.paused = @ + 1]
       IN  /\ job_queue' = r.heap
           /\ IF ~r.ok
              THEN /\ worker' = pause
                   /\ UNCHANGED <<job, active_jobs, completed_jobs, metrics>>
              ELSE IF job[id].job_type \in KnownJobTypes
                      THEN /\ job' = [job EXCEPT ![id] = StartedJob(job[id], now)]
                           /\ active_jobs' = DictSet(active_jobs, id)
                           /\ worker' = [worker EXCEPT !.idle = @ - 1,
                                                       !.handling = @ \cup {id}]
                           /\ UNCHANGED <<completed_jobs, metrics>>
                      ELSE /\ job' = [job EXCEPT ![id] =
                                  FinishedJob(FailedJob(StartedJob(job[id], now)), now)]
                           /\ metrics' = Bump(Bump(metrics, "failed_jobs"),
                                              "total_jobs_processed")
                           /\ completed_jobs' = DictSet(completed_jobs, id)
                           /\ active_jobs' = DictDel(DictSet(active_jobs, id), id)
                           /\ worker' = pause
    /\ UNCHANGED <<running, stopping, n_submitted, now>>

\* ETLManager._process_job: the handler returned.  The finally block raises
\* KeyError at "del self.active_jobs[...]" when cancel_job already removed the
\* job; that, or a failing "completed" notification, sends the worker to the
\* loop's "except Exception" (sleep 5).
HandlerReturn(id, published) ==
    /\ id \in worker.handling
    /\ LET keyError == ~InDict(active_jobs, id)
       IN  /\ job' = [job EXCEPT ![id] = FinishedJob(SucceededJob(job[id]), now)]
           /\ metrics' = Bump(Bump(metrics, "successful_jobs"), "total_jobs_processed")
           /\ completed_jobs' = DictSet(completed_jobs, id)
           /\ active_jobs' = DictDel(active_jobs, id)
           /\ worker' = LeaveHandler(worker, id, keyError \/ ~published)
    /\ UNCHANGED <<running, stopping, n_submitted, job_queue, now>>

\* ETLManager._process_job: the handler raised.  notify_system_error raises
\* TypeError (three positional arguments given, two accepted); the finally
\* block still runs, then the worker loop catches the error (sleep 5).
HandlerRaise(id) ==
    /\ id \in worker.handling
    /\ job' = [job EXCEPT ![id] = FinishedJob(FailedJob(job[id]), now)]
    /\ metrics' = Bump(Bump(metrics, "failed_jobs"), "total_jobs_processed")
    /\ completed_jobs' = DictSet(completed_jobs, id)
    /\ active_jobs' = DictDel(active_jobs, id)
    /\ worker' = LeaveHandler(worker, id, TRUE)
    /\ UNCHANGED <<running, stopping, n_submitted, job_queue, now>>

\* ETLManager._worker_loop: the 5 second pause ends; "while self.running".
WorkerWake ==
    /\ worker.paused > 0
    /\ worker' = [worker EXCEPT !.paused = @ - 1,
                                !.idle = IF running THEN @ + 1 ELSE @]
    /\ UNCHANGED <<running, stopping, job, n_submitted, job_queue, active_jobs,
                   completed_jobs, metrics, now>>

\* ETLManager.get_metrics, lines 305-309: the performance figures are read
\* from the counters of self.metrics.
GetMetrics ==
    [total_jobs_processed |-> metrics.total_jobs_processed,
     successful_jobs |-> metrics.successful_jobs,
     failed_jobs |-> metrics.failed_jobs]

\* ETLManager.get_all_jobs.  The key of the sort at line 221:
\* "completed_at or created_at".
SortKey(id) ==
    IF job[id].completed_at # None THEN job[id].completed_at
    ELSE job[id].created_at

\* list.sort(key, reverse=True) one element at a time: x goes behind every
\* element whose key is not smaller (the sort is stable).
RECURSIVE InsertDesc(_, _)
InsertDesc(s, x) ==
    IF s = <<>> THEN <<x>>
    ELSE IF SortKey(Head(s)) >= SortKey(x) THEN <<Head(s)>> \o InsertDesc(Tail(s), x)
    ELSE <<x>> \o s

RECURSIVE SortDesc(_)
SortDesc(s) ==
    IF s = <<>> THEN <<>>
    ELSE InsertDesc(SortDesc(SubSeq(s, 1, Len(s) - 1)), s[Len(s)])

\* s[:stop] of a Python list: a negative stop counts from the end.
PySlice(s, stop) ==
    LET k == IF stop >= Len(s) THEN Len(s)
             ELSE IF stop >= 0 THEN stop
             ELSE IF Len(s) + stop > 0 THEN Len(s) + stop
             ELSE 0
    IN  SubSeq(s, 1, k)

\* Lines 213-226: every active job, then the completed jobs, latest first,
\* cut at limit - len(all_jobs).
GetAllJobs(limit) ==
    [active |-> active_jobs,
     completed |-> PySlice(SortDesc(completed_jobs), limit - Len(active_jobs))]

\* ETLManager._update_health_metrics: the active jobs running longer than
\* job_timeout, in active_jobs order.
StuckJobs ==
    SelectSeq(active_jobs,
              LAMBDA id : /\ job[id].started_at # None
                          /\ now - job[id].started_at > job_timeout)

RECURSIVE DictSetAll(_, _)
DictSetAll(d, ks) ==
    IF ks = <<>> THEN d ELSE DictSetAll(DictSet(d, Head(ks)), Tail(ks))

\* ETLManager._update_health_metrics (run by _health_monitor_loop): cancel_job
\* on each stuck job in turn.  A cancel_job whose notification fails raises
\* after cancelling its job; the sweep's "except Exception" ends the pass, so
\* the first c stuck jobs are cancelled for some c >= 1.
TimeoutSweep(c) ==
    /\ running
    /\ c \in 1..Len(StuckJobs)
    /\ LET hit == SubSeq(StuckJobs, 1, c)
       IN  /\ job' = [i \in JobIds |->
                         IF InDict(hit, i) THEN CancelledJob(job[i], now) ELSE job[i]]
           /\ completed_jobs' = DictSetAll(completed_jobs, hit)
           /\ active_jobs' = SelectSeq(active_jobs, LAMBDA i : ~InDict(hit, i))
    /\ UNCHANGED <<running, stopping, n_submitted, job_queue, worker, metrics,
                   now>>

\* ETLManager.stop, lines 133-144: running cleared, every task cancelled, then
\* the call awaits asyncio.gather.  A task cancelled while it waits for a job
\* or pauses ends with no other effect; a task inside a handler ends in
\* WorkerCancelled.
StopBegin ==
    /\ running
    /\ running' = FALSE
    /\ stopping' = TRUE
    /\ worker' = [NoWorkers EXCEPT !.cancelling = worker.handling]
    /\ UNCHANGED <<job, n_submitted, job_queue, active_jobs, completed_jobs,
                   metrics, now>>

\* A worker task cancelled inside the handler of job id resumes with
\* CancelledError: "except Exception" does not catch it and the finally block of
\* _process_job runs with the status left as it is.  A KeyError or a failing
\* notification there replaces the CancelledError and is caught by the loop
\* (sleep 5, then "while self.running" ends the task).
WorkerCancelled(id, published) ==
    /\ id \in worker.cancelling
    /\ LET keyError == ~InDict(active_jobs, id)
       IN  /\ job' = [job EXCEPT ![id] = FinishedJob(job[id], now)]
           /\ metrics' = Bump(metrics, "total_jobs_processed")
           /\ completed_jobs' = DictSet(completed_jobs, id)
           /\ active_jobs' = DictDel(active_jobs, id)
           /\ worker' = [worker EXCEPT
                  !.cancelling = @ \ {id},
                  !.paused = IF keyError \/ ~published THEN @ + 1 ELSE @]
    /\ UNCHANGED <<running, stopping, n_submitted, job_queue, now>>

\* ETLManager.stop, lines 145-149: gather returned (every task has ended); the
\* task list is cleared and every job still in active_jobs is marked cancelled
\* (and left there).
StopEnd ==
    /\ stopping
    /\ worker = NoWorkers
    /\ stopping' = FALSE
    /\ job' = [i \in JobIds |->
                  IF InDict(active_jobs, i)
                  THEN [job[i] EXCEPT !.status = CANCELLED] ELSE job[i]]
    /\ UNCHANGED <<running, n_submitted, job_queue, active_jobs, completed_jobs,
                   worker, metrics, now>>

\* ======================================================= DataChangeNotifier
\* A dict is the sequence of its entries in insertion order; popping a key
\* leaves an empty slot behind (key 0), as in the interpreter's entry table,
\* which is what a live iterator walks over.
MaxConns == 2          \* websocket connections accepted in one behaviour
ConnIds == 1..MaxConns
EntityIds == {"P1", "P2"}
ALL == <<"all", "">>
EntityKey(entity_type, entity_id) == <<entity_type, entity_id>>
SubscriptionKeys == {ALL} \cup {EntityKey("project", e) : e \in EntityIds}

VARIABLES active_connections, subscriptions, n_connected, broken, call
notifyVars == <<active_connections, subscriptions, n_connected, broken, call>>

\* History of the subscribe calls: type_only holds the connections that
\* subscribed to entity type "project" with no id, due those of them that
\* were connected when the latest notify_change was called.
VARIABLES type_only, due
askVars == <<type_only, due>>

Tomb == [key |-> 0, value |-> {}]
DictKeys(d) == {d[i].key : i \in DOMAIN d} \ {0}
DictUsed(d) == Cardinality({i \in DOMAIN d : d[i].key # 0})
DictSlot(d, k) == CHOOSE i \in DOMAIN d : d[i].key = k
DictValue(d, k) == d[DictSlot(d, k)].value
DictPop(d, k) == [i \in DOMAIN d |-> IF d[i].key = k THEN Tomb ELSE d[i]]
DictPut(d, k, v) ==
    IF k \in DictKeys(d)
    THEN [i \in DOMAIN d |-> IF d[i].key = k THEN [key |-> k, value |-> v] ELSE d[i]]
    ELSE Append(d, [key |-> k, value |-> v])

\* dict.items(): the iterator remembers the size it started with (used), how
\* many items it still expects (len) and the next slot to look at (pos).
NoIter == [pos |-> 0, used |-> 0, len |-> 0]
NewIter(d) == [pos |-> 1, used |-> DictUsed(d), len |-> DictUsed(d)]

\* next() on the iterator: RuntimeError when the dict changed size, or when an
\* entry turns up after all expected items were produced.
IterNext(it, d) ==
    LET rest == {i \in it.pos..Len(d) : d[i].key # 0}
        i == CHOOSE m \in rest : \A o \in rest : m <= o
    IN  IF it.used # DictUsed(d)
        THEN [kind |-> "RuntimeError", key |-> 0, it |-> it]
        ELSE IF rest = {}
        THEN [kind |-> "StopIteration", key |-> 0, it |-> it]
        ELSE IF it.len = 0
        THEN [kind |-> "RuntimeError", key |-> 0, it |-> it]
        ELSE [kind |-> "item", key |-> d[i].key,
              it |-> [it EXCEPT !.pos = i + 1, !.len = it.len - 1]]

\* Line 52: the connection subscribes to the entity's key or to "all".
Matches(keys, entity_key) == entity_key \in keys \/ ALL \in keys

\* The connections a change for entity_key is meant for, at this moment.
Subscribers(entity_key) ==
    {c \in DictKeys(active_connections) :
        /\ c \in DictKeys(subscriptions)
        /\ Matches(DictValue(subscriptions, c), entity_key)}

NoCall ==
    [kind |-> "none", pc |-> "idle", entity_key |-> ALL, targets |-> {},
     it |-> NoIter, cur |-> 0, delivered |-> {}, failed |-> {},
     disconnected |-> <<>>, published |-> TRUE, outcome |-> "none"]

InitAsk ==
    /\ type_only = {}
    /\ due = {}

InitNotify ==
    /\ active_connections = <<>>
    /\ subscriptions = <<>>
    /\ n_connected = 0
    /\ broken = {}
    /\ call = NoCall

\* DataChangeNotifier.connect, lines 22-23.
Connect ==
    /\ n_connected < MaxConns
    /\ n_connected' = n_connected + 1
    /\ active_connections' = DictPut(active_connections, n_connected + 1, {})
    /\ subscriptions' = DictPut(subscriptions, n_connected + 1, {})
    /\ UNCHANGED <<broken, call>>

\* A disconnect that forgets the subscription entry.
DisconnectLeavesEntry(c) ==
    /\ active_connections' = DictPop(active_connections, c)
    /\ UNCHANGED <<subscriptions, n_connected, broken, call>>

\* DataChangeNotifier.disconnect, lines 27-28, called by the websocket
\* endpoint when the client has gone, for any connection id.
Disconnect(c) ==
    /\ active_connections' = DictPop(active_connections, c)
    /\ subscriptions' = DictPop(subscriptions, c)
    /\ UNCHANGED <<n_connected, broken, call>>

\* DataChangeNotifier.subscribe_to_entity; entity_id "" stands for None.
SubscribeToEntity(c, entity_type, entity_id) ==
    /\ c <= n_connected
    /\ subscriptions' =
          IF c \in DictKeys(subscriptions)
          THEN LET old == DictValue(subscriptions, c)
               IN  IF entity_type = "all"
                   THEN DictPut(subscriptions, c, old \cup {ALL})
                   ELSE IF entity_id # ""
                   THEN DictPut(subscriptions, c,
                                old \cup {EntityKey(entity_type, entity_id)})
                   ELSE subscriptions
          ELSE subscriptions
    /\ UNCHANGED <<active_connections, n_connected, broken, call>>

\* The peer of a websocket goes away: every later send_text on it raises.
PeerDrop(c) ==
    /\ c <= n_connected
    /\ c \notin broken
    /\ broken' = broken \cup {c}
    /\ UNCHANGED <<active_connections, subscriptions, n_connected, call>>

\* ------------------------------------------------ one notification call
\* A call is followed from one await to the next: pc names the await it is
\* suspended in (publish, send, srem) and outcome how it ended.
StartCall(kind, entity_key, targets, pc) ==
    [NoCall EXCEPT !.kind = kind, !.entity_key = entity_key,
                   !.targets = targets, !.pc = pc, !.outcome = "running"]

Ended(c, outcome) == [c EXCEPT !.pc = "done", !.outcome = outcome]

\* broadcast_to_subscribers, lines 51-54: next items of subscriptions.items()
\* up to the first connection that matches and still has a websocket.
RECURSIVE NextSubscriber(_, _)
NextSubscriber(it, entity_key) ==
    LET n == IterNext(it, subscriptions)
    IN  IF n.kind # "item" THEN n
        ELSE IF /\ Matches(DictValue(subscriptions, n.key), entity_key)
                /\ n.key \in DictKeys(active_connections)
        THEN n
        ELSE NextSubscriber(n.it, entity_key)

\* The call runs broadcast_to_subscribers (lines 48-62): notify_change, or
\* the broker listener relaying a message.
InBroadcast(c) == c.kind \in {"change", "relayed_change", "relayed_event"}

\* The loop of a call runs on from iterator it until its next await; the
\* result is the call record and the two tables as that stretch leaves them.
Same(c) == [call |-> c, ac |-> active_connections, subs |-> subscriptions]

\* Lines 61-62: disconnect for the next noted connection pops it from both
\* tables and awaits srem; with none left the call returns.
CleanUp(c) ==
    IF c.disconnected = <<>>
    THEN Same(Ended(c, "returned"))
    ELSE [call |-> [c EXCEPT !.pc = "srem", !.cur = Head(c.disconnected),
                             !.disconnected = Tail(c.disconnected)],
          ac |-> DictPop(active_connections, Head(c.disconnected)),
          subs |-> DictPop(subscriptions, Head(c.disconnected))]

RunLoop(c, it) ==
    LET n == IF InBroadcast(c) THEN NextSubscriber(it, c.entity_key)
             ELSE IterNext(it, active_connections)
    IN  IF n.kind = "item"
        THEN Same([c EXCEPT !.pc = "send", !.cur = n.key, !.it = n.it])
        ELSE IF n.kind = "RuntimeError"
        THEN Same(Ended(c, "raised"))
        ELSE CleanUp(c)

Resume(r) ==
    /\ call' = r.call
    /\ active_connections' = r.ac
    /\ subscriptions' = r.subs
    /\ UNCHANGED <<n_connected, broken>>

\* notify_change, lines 40-45: up to the await of redis publish.
NotifyChange(entity_id) ==
    /\ call.pc \in {"idle", "done"}
    /\ LET k == EntityKey("project", entity_id)
       IN  call' = StartCall("change", k, Subscribers(k), "publish")
    /\ UNCHANGED <<active_connections, subscriptions, n_connected, broken>>

\* notify_system_event, lines 79-85: up to the await of redis publish.
NotifySystemEvent ==
    /\ call.pc \in {"idle", "done"}
    /\ call' = StartCall("system_event", ALL, DictKeys(active_connections), "publish")
    /\ UNCHANGED <<active_connections, subscriptions, n_connected, broken>>

\* notify_system_error, lines 65-73: no publish, straight into the loop.
NotifySystemError ==
    /\ call.pc \in {"idle", "done"}
    /\ Resume(RunLoop(StartCall("system_error", ALL,
                                DictKeys(active_connections), "loop"),
                      NewIter(active_connections)))

\* redis publish returns or raises (lines 45 and 85); nothing catches it.
PublishReturn(ok) ==
    /\ call.pc = "publish"
    /\ IF ok
       THEN Resume(RunLoop(call, NewIter(IF call.kind = "change"
                                         THEN subscriptions
                                         ELSE active_connections)))
       ELSE /\ call' = Ended([call EXCEPT !.published = FALSE], "raised")
            /\ UNCHANGED <<active_connections, subscriptions, n_connected, broken>>

\* websocket.send_text returns or raises.  notify_change notes the failed
\* connection and goes on (lines 57-60); the system notifications call
\* disconnect inside the loop (lines 74-75, 91-92) and await its srem.
SendReturn ==
    /\ call.pc = "send"
    /\ IF call.cur \notin broken
       THEN Resume(RunLoop([call EXCEPT !.delivered = @ \cup {call.cur}], call.it))
       ELSE IF InBroadcast(call)
       THEN Resume(RunLoop([call EXCEPT !.failed = @ \cup {call.cur},
                                        !.disconnected = Append(@, call.cur)],
                           call.it))
       ELSE /\ call' = [call EXCEPT !.failed = @ \cup {call.cur}, !.pc = "srem"]
            /\ active_connections' = DictPop(active_connections, call.cur)
            /\ subscriptions' = DictPop(subscriptions, call.cur)
            /\ UNCHANGED <<n_connected, broken>>

\* redis srem inside disconnect returns or raises (line 29).
SremReturn(ok) ==
    /\ call.pc = "srem"
    /\ IF ~ok
       THEN /\ call' = Ended(call, "raised")
            /\ UNCHANGED <<active_connections, subscriptions, n_connected, broken>>
       ELSE IF InBroadcast(call)
       THEN Resume(CleanUp(call))
       ELSE Resume(RunLoop(call, call.it))

\* RedisPubSubListener.start_listening, lines 105-109: a message published by
\* another instance arrives on "project_changes" (a data update) or on
\* "system_notifications" (a system event) and is handed to
\* broadcast_to_subscribers with the message's "data" member as the change.
\* A system event's data names no entity, so its key is "project:None".
\* targets are the recipients the same event has when raised locally; what
\* the broadcast raises is swallowed by the listener (lines 110-112).
ListenerMessage(kind, entity_id) ==
    /\ call.pc \in {"idle", "done"}
    /\ LET change == kind = "relayed_change"
           k == EntityKey("project", IF change THEN entity_id ELSE "None")
           targets == IF change THEN Subscribers(k)
                      ELSE DictKeys(active_connections)
       IN  Resume(RunLoop(StartCall(kind, k, targets, "loop"),
                          NewIter(subscriptions)))

\* ========================================= poll_with_change_detection (DWS)
\* Who calls EnhancedDWSMonitor.poll_with_change_detection, and on which
\* monitor object: the scheduler's polling loop and trigger_immediate_sync
\* share the scheduler's monitor, a worker running a dws_sync job uses the
\* ETL manager's own.  Every monitor keeps its own last_content_hashes.
MaxVersion == 2        \* times the upstream data changes in one behaviour
Callers == {"loop", "manual", "job"}
Monitors == {"scheduler", "etl_manager"}
MonitorOf(c) == IF c = "job" THEN "etl_manager" ELSE "scheduler"
Versions == 0..MaxVersion

\* calculate_content_hash: a digest that tells different contents apart.
ContentHash(data) == <<"sha256", data>>
NoHash == <<"sha256", None>>

VARIABLES upstream, last_content_hashes, db_content_hash, sync, notified
syncVars == <<upstream, last_content_hashes, db_content_hash, sync, notified>>

Idle == [pc |-> "idle", data |-> None, changes |-> 0]

InitSync ==
    /\ upstream = 0
    /\ last_content_hashes = [m \in Monitors |-> NoHash]
    /\ db_content_hash = NoHash
    /\ sync = [c \in Callers |-> Idle]
    /\ notified = [v \in Versions |-> 0]

\* The source publishes new data.
UpstreamChange ==
    /\ upstream < MaxVersion
    /\ upstream' = upstream + 1
    /\ UNCHANGED <<last_content_hashes, db_content_hash, sync, notified>>

\* _dws_polling_loop line 161, trigger_immediate_sync line 361 and
\* _execute_dws_sync line 445 call poll_with_change_detection, which awaits
\* fetch_dws_data (dws.py line 1495).  Nothing is tested or taken first.
SyncStart(c) ==
    /\ sync[c].pc = "idle"
    /\ sync' = [sync EXCEPT ![c] = [Idle EXCEPT !.pc = "fetch"]]
    /\ UNCHANGED <<upstream, last_content_hashes, db_content_hash, notified>>

\* dws.py lines 1495-1508: the fetch returns; with an unchanged overall hash
\* the poll is over, otherwise process_data_changes starts and awaits its
\* queries.
FetchReturn(c) ==
    /\ sync[c].pc = "fetch"
    /\ sync' = [sync EXCEPT ![c] =
                   IF ContentHash(upstream) # last_content_hashes[MonitorOf(c)]
                   THEN [pc |-> "process", data |-> upstream, changes |-> 0]
                   ELSE Idle]
    /\ UNCHANGED <<upstream, last_content_hashes, db_content_hash, notified>>

\* _process_project (dws.py lines 1240-1283): the project row is read and
\* updated in the session when its stored content_hash differs; the change
\* is noted and the commit awaited.
ProcessProject(c) ==
    /\ sync[c].pc = "process"
    /\ sync' = [sync EXCEPT ![c].pc = "commit",
                            ![c].changes =
                                IF db_content_hash # ContentHash(sync[c].data)
                                THEN 1 ELSE 0]
    /\ UNCHANGED <<upstream, last_content_hashes, db_content_hash, notified>>

\* process_data_changes commits (line 1194); back in the poll the overall
\* hash is recorded (line 1511) and the notifications are awaited.
CommitReturn(c) ==
    /\ sync[c].pc = "commit"
    /\ db_content_hash' = IF sync[c].changes = 1 THEN ContentHash(sync[c].data)
                          ELSE db_content_hash
    /\ last_content_hashes' =
          [last_content_hashes EXCEPT ![MonitorOf(c)] = ContentHash(sync[c].data)]
    /\ sync' = [sync EXCEPT ![c].pc = IF sync[c].changes = 1 THEN "notify" ELSE "idle"]
    /\ UNCHANGED <<upstream, notified>>

\* dws.py lines 1517-1518: notify_change for the change; the poll is over.
NotifyReturn(c) ==
    /\ sync[c].pc = "notify"
    /\ notified' = [notified EXCEPT ![sync[c].data] = @ + 1]
    /\ sync' = [sync EXCEPT ![c] = Idle]
    /\ UNCHANGED <<upstream, last_content_hashes, db_content_hash>>

\* dws.py lines 1517-1518 and 1527-1532: notify_change raises (the broker
\* publish fails); the poll logs, reports and raises again.  The commit and
\* the recorded hash stay.
NotifyFails(c) ==
    /\ sync[c].pc = "notify"
    /\ sync' = [sync EXCEPT ![c] = Idle]
    /\ UNCHANGED <<upstream, last_content_hashes, db_content_hash, notified>>

\* ============================================================ DataScheduler
\* The three polling loops and the maintenance loop on one clock.  A loop
\* sleeps until its wake time, runs one sync, and sleeps again: the polling
\* interval after a success, the backoff delay after a failure.  Time moves
\* to the next wake time when no loop is due; a sync takes no time here.
MaxHours == 4          \* hours of scheduler time in one behaviour

dws_polling_interval == 1800
treasury_polling_interval == 3600
correlation_interval == 7200
backoff_base == 300
backoff_cap == 3600
correlation_error_delay == 300
maintenance_interval == 3600
old_error_age == 7200
retry_attempts == 3
default_interval == 3600

MaxTime == MaxHours * 3600
Loops == {"dws", "treasury", "correlation"}
Sleepers == Loops \cup {"maintenance"}

VARIABLES sched_now, wake, loop_pc, error_counts, last_run_times,
          health_status, streak, last_delay
schedVars == <<sched_now, wake, loop_pc, error_counts, last_run_times,
               health_status, streak, last_delay>>

Min2(a, b) == IF a <= b THEN a ELSE b

\* 2 ** n
RECURSIVE Pow2(_)
Pow2(n) == IF n <= 0 THEN 1 ELSE 2 * Pow2(n - 1)

\* Lines 180, 215 and 258: the delay slept after a failure, from the loop's
\* error count as just incremented.
Backoff(l, n) ==
    IF l = "correlation" THEN correlation_error_delay
    ELSE Min2(backoff_base * Pow2(n - 1), backoff_cap)

\* Lines 185, 220 and 262.
Interval(l) ==
    IF l = "dws" THEN dws_polling_interval
    ELSE IF l = "treasury" THEN treasury_polling_interval
    ELSE correlation_interval

\* start_scheduler: every loop starts at once; the maintenance loop sleeps
\* an hour first (line 268).
InitSched ==
    /\ sched_now = 0
    /\ wake = [l \in Sleepers |-> IF l = "maintenance" THEN maintenance_interval ELSE 0]
    /\ loop_pc = [l \in Loops |-> "sleeping"]
    /\ error_counts = [l \in Loops |-> 0]
    /\ last_run_times = [l \in Loops |-> None]
    /\ health_status = [l \in Loops |-> "stopped"]
    /\ streak = [l \in Loops |-> 0]
    /\ last_delay = [l \in Loops |-> 0]

\* The next cycle of loop l starts and awaits the sync (lines 157-161,
\* 191-196, 226-230).
StartCycle(l) ==
    /\ loop_pc[l] = "sleeping"
    /\ loop_pc' = [loop_pc EXCEPT ![l] = "syncing"]
    /\ health_status' = [health_status EXCEPT ![l] = "running"]
    /\ UNCHANGED <<sched_now, wake, error_counts, last_run_times, streak,
                   last_delay>>

\* asyncio.sleep returns once the wake time is reached.
LoopWake(l) == wake[l] <= sched_now /\ StartCycle(l)

\* The awaited sync call never returns: the loop's task stays suspended in
\* it (no timeout around the call, lines 161, 196, 230).
SyncHangs(l) ==
    /\ loop_pc[l] = "syncing"
    /\ loop_pc' = [loop_pc EXCEPT ![l] = "hung"]
    /\ UNCHANGED <<sched_now, wake, error_counts, last_run_times, health_status,
                   streak, last_delay>>

\* The sync returned (lines 163-166 and 185): the loop notes the run, clears
\* its error count and sleeps its polling interval.
SyncSucceeds(l) ==
    /\ loop_pc[l] = "syncing"
    /\ last_run_times' = [last_run_times EXCEPT ![l] = sched_now]
    /\ error_counts' = [error_counts EXCEPT ![l] = 0]
    /\ health_status' = [health_status EXCEPT ![l] = "healthy"]
    /\ loop_pc' = [loop_pc EXCEPT ![l] = "sleeping"]
    /\ wake' = [wake EXCEPT ![l] = sched_now + Interval(l)]
    /\ streak' = [streak EXCEPT ![l] = 0]
    /\ last_delay' = [last_delay EXCEPT ![l] = 0]
    /\ UNCHANGED sched_now

\* A loop without the "except Exception" of lines 172, 207 and 249: the
\* exception of the sync ends the loop's task.
SyncFailsEndsLoop(l) ==
    /\ loop_pc[l] = "syncing"
    /\ loop_pc' = [loop_pc EXCEPT ![l] = "ended"]
    /\ streak' = [streak EXCEPT ![l] = @ + 1]
    /\ UNCHANGED <<sched_now, wake, error_counts, last_run_times, health_status,
                   last_delay>>

\* The sync raised (lines 172-182): the error count goes up and the loop
\* sleeps the delay computed from it.  streak counts the failures since the
\* last success, last_delay is the latest delay of that streak.
SyncFails(l) ==
    /\ loop_pc[l] = "syncing"
    /\ LET n == error_counts[l] + 1
       IN  /\ error_counts' = [error_counts EXCEPT ![l] = n]
           /\ wake' = [wake EXCEPT ![l] = sched_now + Backoff(l, n)]
           /\ last_delay' = [last_delay EXCEPT ![l] = Backoff(l, n)]
    /\ streak' = [streak EXCEPT ![l] = @ + 1]
    /\ health_status' = [health_status EXCEPT ![l] = "error"]
    /\ loop_pc' = [loop_pc EXCEPT ![l] = "sleeping"]
    /\ UNCHANGED <<sched_now, last_run_times>>

\* start_scheduler, lines 65-85: the keys under which self.tasks holds the
\* scheduler's tasks.
TaskNames ==
    {"health_monitor", "dws_polling", "treasury_polling",
     "correlation_analysis", "maintenance"}

\* _maintenance_loop, lines 276-279: the error count of a loop whose last
\* successful run is more than two hours old is cleared.
OldErrors(l) ==
    last_run_times[l] # None /\ sched_now - last_run_times[l] > old_error_age
ClearedCounts == [l \in Loops |-> IF OldErrors(l) THEN 0 ELSE error_counts[l]]

\* _restart_failed_tasks, lines 294-298: the names the pass restarts.  It
\* takes them from the keys of error_counts and looks them up in self.tasks.
ToRestart ==
    {name \in DOMAIN ClearedCounts :
        ClearedCounts[name] > retry_attempts /\ name \in TaskNames}

\* _maintenance_loop, lines 268-282, with _restart_failed_tasks, 292-317:
\* once an hour the old error counts are cleared; then every task to restart
\* is cancelled and created anew (the new loop starts its first cycle at
\* once) and its error count is set to 0.
Maintenance ==
    /\ wake["maintenance"] <= sched_now
    /\ error_counts' =
          [l \in Loops |-> IF l \in ToRestart THEN 0 ELSE ClearedCounts[l]]
    /\ loop_pc' = [l \in Loops |-> IF l \in ToRestart THEN "sleeping" ELSE loop_pc[l]]
    /\ wake' = [l \in Sleepers |->
                   IF l = "maintenance" THEN sched_now + maintenance_interval
                   ELSE IF l \in ToRestart THEN sched_now
                   ELSE wake[l]]
    /\ UNCHANGED <<sched_now, last_run_times, health_status, streak, last_delay>>

\* self.config, lines 28-36, and self.config.get(key, default).
Config ==
    [dws_polling_interval |-> dws_polling_interval,
     treasury_polling_interval |-> treasury_polling_interval,
     correlation_interval |-> correlation_interval,
     retry_attempts |-> retry_attempts]
ConfigGet(key, default) == IF key \in DOMAIN Config THEN Config[key] ELSE default

\* _update_health_status, line 339: the interval a source is expected to
\* keep, read from the configuration under f'{task_name}_polling_interval'.
ExpectedInterval(task_name) ==
    ConfigGet(task_name \o "_polling_interval", default_interval)

\* _update_health_status, lines 336-342 (run by _health_monitor_loop every
\* 300 seconds, a divisor of every delay of the loops): a source that has a
\* last run time older than twice its expected interval is marked stale.
\* No loop task ends by itself, so lines 331-333 mark nothing.
Stale(l) ==
    /\ last_run_times[l] # None
    /\ sched_now - last_run_times[l] > ExpectedInterval(l) * 2
HealthCheck ==
    /\ health_status' =
          [l \in Loops |-> IF Stale(l) THEN "stale" ELSE health_status[l]]
    /\ UNCHANGED <<sched_now, wake, loop_pc, error_counts, last_run_times,
                   streak, last_delay>>

\* Nothing is due: the clock moves to the earliest wake time.
NextWake == CHOOSE t \in {wake[l] : l \in Sleepers} : \A l \in Sleepers : t <= wake[l]

TimePasses ==
    /\ \A l \in Loops : loop_pc[l] = "sleeping"
    /\ \A l \in Sleepers : wake[l] > sched_now
    /\ NextWake <= MaxTime
    /\ sched_now' = NextWake
    /\ UNCHANGED <<wake, loop_pc, error_counts, last_run_times, health_status,
                   streak, last_delay>>

\* ========================================================= change detection
\* backend/app/services/change_detection.py.  A record is a Python dict: a
\* sequence of <<key, value>> items in insertion order, no key twice.  A
\* value carries its Python type; num is the number an int or a float
\* stands for and text the characters of a str, or of str(value) for a date.
Fields == {"name", "budget_spent"}
PyNone == [type |-> "NoneType", num |-> 0, text |-> "None"]
PyInt(n) == [type |-> "int", num |-> n, text |-> ""]
PyFloat(n) == [type |-> "float", num |-> n, text |-> ""]
PyStr(t) == [type |-> "str", num |-> 0, text |-> t]
PyDate(t) == [type |-> "date", num |-> 0, text |-> t]
FieldValues ==
    {PyNone, PyInt(1), PyFloat(1), PyInt(2), PyStr("2024-01-01"),
     PyDate("2024-01-01")}

Items == Fields \X FieldValues
Records ==
    {<<>>} \cup {<<i>> : i \in Items}
           \cup {r \in Items \X Items : r[1][1] # r[2][1]}

\* Python's ==: an int and a float of the same number are equal; values of
\* any other two different types are not.
Numeric == {"int", "float"}
PyEq(a, b) ==
    IF a.type \in Numeric /\ b.type \in Numeric THEN a.num = b.num ELSE a = b

\* dict.keys() and dict.get(key), which gives None for a key not in the dict
KeysOf(d) == {d[i][1] : i \in DOMAIN d}
Get(d, key) ==
    IF key \in KeysOf(d)
    THEN d[CHOOSE i \in DOMAIN d : d[i][1] = key][2]
    ELSE PyNone

\* dict ==: the same keys with equal values, in whatever order
DictEq(d, e) ==
    KeysOf(d) = KeysOf(e) /\ \A k \in KeysOf(d) : PyEq(Get(d, k), Get(e, k))

\* diff_dicts, lines 14-22.  The two results are dicts whose order (that of a
\* set union) nothing reads: each is the mapping from its keys.
Differing(old, new) ==
    {key \in KeysOf(new) \cup KeysOf(old) : ~PyEq(Get(old, key), Get(new, key))}
diff_dicts(old, new) ==
    [changed |-> [key \in Differing(old, new) |-> Get(new, key)],
     old_values |-> [key \in Differing(old, new) |-> Get(old, key)]]

\* json.dumps(value, default=str), line 10: the JSON text of one value.  An
\* int prints its digits, a float its digits with a fraction, None prints
\* null, a str is quoted; a date is no JSON type, so default=str turns it
\* into str(value) and that str is quoted.
Default(v) == IF v.type = "date" THEN PyStr(v.text) ELSE v
JsonValue(v) ==
    LET w == Default(v)
    IN  CASE w.type = "NoneType" -> <<"null", 0, "">>
          [] w.type = "int" -> <<"integer", w.num, "">>
          [] w.type = "float" -> <<"fraction", w.num, "">>
          [] w.type = "str" -> <<"string", 0, w.text>>

\* json.dumps(data, sort_keys=True, ...), line 10: the members in the order
\* of their keys.
KeyOrder == <<"budget_spent", "name">>
JsonDumps(data) ==
    LET present == SelectSeq(KeyOrder, LAMBDA k : k \in KeysOf(data))
    IN  [i \in DOMAIN present |-> <<present[i], JsonValue(Get(data, present[i]))>>]

\* calculate_content_hash, lines 8-11.  SHA-256 is taken to be free of
\* collisions: the digest stands for the text it was computed from.
Sha256(text) == text
calculate_content_hash(data) == Sha256(JsonDumps(data))

VARIABLES
    old_record,         \* the two records handed to the change detector
    new_record,
    detected            \* what it returned for them

detectVars == <<old_record, new_record, detected>>

NoDetection == [op |-> "none", changed |-> <<>>, old_values |-> <<>>,
                old_hash |-> <<>>, new_hash |-> <<>>]

InitDetect ==
    /\ old_record = <<>>
    /\ new_record = <<>>
    /\ detected = NoDetection

\* The change detector is handed any two records.
InitRecords ==
    /\ old_record \in Records
    /\ new_record \in Records
    /\ detected = NoDetection

DiffDicts ==
    /\ detected.op # "diff"
    /\ detected' = [NoDetection EXCEPT
                       !.op = "diff",
                       !.changed = diff_dicts(old_record, new_record).changed,
                       !.old_values = diff_dicts(old_record, new_record).old_values]
    /\ UNCHANGED <<old_record, new_record>>

CalculateContentHash ==
    /\ detected.op # "hash"
    /\ detected' = [NoDetection EXCEPT
                       !.op = "hash",
                       !.old_hash = calculate_content_hash(old_record),
                       !.new_hash = calculate_content_hash(new_record)]
    /\ UNCHANGED <<old_record, new_record>>

\* ============================================================ the DWS pass
\* EnhancedDWSMonitor.process_data_changes (backend/app/etl/dws.py), run by
\* poll_with_change_detection for the DWS polling loop.  A fetched record is
\* the set of the keys it has.
MunicipalityKeys == {"code", "name", "province"}
ProjectKeys == {"external_id", "name"}
MunicipalityRecords == {MunicipalityKeys, MunicipalityKeys \ {"code"}}
ProjectRecords == {ProjectKeys, ProjectKeys \ {"external_id"}}

SeqsUpTo(S, n) == UNION {[1..k -> S] : k \in 0..n}
Payloads ==
    [municipalities : SeqsUpTo(MunicipalityRecords, MaxRecords),
     projects : SeqsUpTo(ProjectRecords, MaxRecords)]

VARIABLES
    payload,        \* current_data, what fetch_dws_data returned
    pass_pc,        \* where the poll is: idle, municipalities, projects,
                    \* commit, returned, raised
    cursor,         \* index of the next record of the list being processed
    session_rows,   \* rows the open session holds, not yet committed
    db_rows         \* committed rows

passVars == <<payload, pass_pc, cursor, session_rows, db_rows>>

NoPayload == [municipalities |-> <<>>, projects |-> <<>>]

InitPass ==
    /\ payload = NoPayload
    /\ pass_pc = "idle"
    /\ cursor = 0
    /\ session_rows = {}
    /\ db_rows = {}

\* poll_with_change_detection, lines 1494-1507: the fetch returned data whose
\* hash is new, and process_data_changes opens a session (line 1180).
PayloadFetched(data) ==
    /\ loop_pc["dws"] = "syncing"
    /\ pass_pc = "idle"
    /\ payload' = data
    /\ pass_pc' = "municipalities"
    /\ cursor' = 1
    /\ session_rows' = {}
    /\ UNCHANGED db_rows

\* An exception leaves "async with async_session_factory()" (line 1180)
\* before the commit of line 1194: the session closes and its rows are gone;
\* poll_with_change_detection logs, notifies and raises again (1527-1532).
PassRaises ==
    /\ pass_pc' = "raised"
    /\ session_rows' = {}
    /\ UNCHANGED <<payload, cursor, db_rows>>

\* Lines 1185-1186 with _process_municipality, 1199-1222: muni_data['code']
\* at line 1204 (and 'name', 'province' at 1211-1213 for a new row) is a
\* KeyError when the record has no such key.
ProcessMunicipality ==
    /\ pass_pc = "municipalities"
    /\ cursor <= Len(payload.municipalities)
    /\ IF MunicipalityKeys \subseteq payload.municipalities[cursor]
       THEN /\ session_rows' = session_rows \cup {<<"municipality", cursor>>}
            /\ cursor' = cursor + 1
            /\ UNCHANGED <<payload, pass_pc, db_rows>>
       ELSE PassRaises

\* Line 1189: the loop over the municipalities is over.
MunicipalitiesDone ==
    /\ pass_pc = "municipalities"
    /\ cursor > Len(payload.municipalities)
    /\ pass_pc' = "projects"
    /\ cursor' = 1
    /\ UNCHANGED <<payload, session_rows, db_rows>>

\* Lines 1189-1192 with _process_project, 1224-1318: project_data
\* ['external_id'] at line 1236 is a KeyError when the record has no such key.
ProcessProjectRecord ==
    /\ pass_pc = "projects"
    /\ cursor <= Len(payload.projects)
    /\ IF "external_id" \in payload.projects[cursor]
       THEN /\ session_rows' = session_rows \cup {<<"project", cursor>>}
            /\ cursor' = cursor + 1
            /\ UNCHANGED <<payload, pass_pc, db_rows>>
       ELSE PassRaises

\* Line 1194: session.commit(), then the poll returns.
CommitPass ==
    /\ pass_pc = "projects"
    /\ cursor > Len(payload.projects)
    /\ db_rows' = db_rows \cup session_rows
    /\ session_rows' = {}
    /\ pass_pc' = "returned"
    /\ UNCHANGED <<payload, cursor>>

\* The polling loop gets the poll's outcome (data_scheduler.py 161-182).
PollReturned ==
    /\ pass_pc = "returned"
    /\ SyncSucceeds("dws")
    /\ pass_pc' = "idle"
    /\ UNCHANGED <<payload, cursor, session_rows, db_rows>>

PollRaised ==
    /\ pass_pc = "raised"
    /\ SyncFails("dws")
    /\ pass_pc' = "idle"
    /\ UNCHANGED <<payload, cursor, session_rows, db_rows>>

\* ======================================== the worker tasks of ETLManager
\* ETLManager.start, ETLManager.stop and _worker_loop with every worker task
\* told apart, for a start() that runs while a stop() awaits its gather.  A
\* job is a unit of the queue here: a task that dequeued one executes its
\* handler and has its job in active_jobs until the handler is left.
TaskIds == 1..(MaxStarts * max_concurrent_jobs)
MaxQueued == max_concurrent_jobs + 1

VARIABLES
    tasks,              \* task id -> none (not created), waiting (in
                        \* job_queue.get()), handling, paused (sleep(5)), ended
    cancel_requested,   \* tasks cancelled by stop(), CancelledError not yet raised
    worker_tasks,       \* self.worker_tasks (the worker tasks in it)
    stop_pc,            \* "gather" while a stop() awaits asyncio.gather
    awaited,            \* the tasks that gather waits for
    queued              \* jobs in job_queue

taskVars == <<tasks, cancel_requested, worker_tasks, stop_pc, awaited, queued>>

InitTasks ==
    /\ tasks = [t \in TaskIds |-> "none"]
    /\ cancel_requested = {}
    /\ worker_tasks = {}
    /\ stop_pc = "idle"
    /\ awaited = {}
    /\ queued = 0

Created == {t \in TaskIds : tasks[t] # "none"}
Handling == {t \in TaskIds : tasks[t] = "handling"}

\* The loop head "while self.running" (line 326): the task goes on to
\* job_queue.get() or ends.
LoopHead == IF running THEN "waiting" ELSE "ended"

\* ETLManager.start, lines 103-114: nothing but self.running is looked at;
\* max_concurrent_jobs tasks are created and appended to self.worker_tasks.
StartWorkers ==
    /\ ~running
    /\ Cardinality(Created) + max_concurrent_jobs <= Cardinality(TaskIds)
    /\ running' = TRUE
    /\ LET new == (Cardinality(Created) + 1)..(Cardinality(Created) + max_concurrent_jobs)
       IN  /\ tasks' = [t \in TaskIds |-> IF t \in new THEN "waiting" ELSE tasks[t]]
           /\ worker_tasks' = worker_tasks \cup new
    /\ UNCHANGED <<cancel_requested, stop_pc, awaited, queued>>

\* ETLManager.stop, lines 133-144: running is cleared, every task of
\* self.worker_tasks is cancelled and the call awaits gather on them.  (A
\* second stop() while one awaits its gather is not followed here.)
StopWorkers ==
    /\ running
    /\ stop_pc = "idle"
    /\ running' = FALSE
    /\ cancel_requested' =
          cancel_requested \cup {t \in worker_tasks : tasks[t] # "ended"}
    /\ awaited' = worker_tasks
    /\ stop_pc' = "gather"
    /\ UNCHANGED <<tasks, worker_tasks, queued>>

\* task.cancel() schedules the wake-up of the task at once, so the event
\* loop raises the CancelledError in every cancelled task before it runs
\* any step of a task that became ready later.
NoneToCancel == cancel_requested = {}

\* The CancelledError is raised in task t.  In job_queue.get() or in the
\* sleep(5) of the loop's except branch it ends the task (lines 339-341).
\* In a handler it runs the finally block of _process_job first, and when
\* that raises (KeyError at line 426 after a cancel_job, or a failing
\* notification at line 429) the exception takes the place of the
\* CancelledError and the loop's "except Exception" catches it: sleep(5).
Delivered(t, clean) ==
    /\ t \in cancel_requested
    /\ tasks[t] \in {"waiting", "handling", "paused"}
    /\ cancel_requested' = cancel_requested \ {t}
    /\ tasks' = [tasks EXCEPT ![t] =
                    IF tasks[t] = "handling" /\ ~clean THEN "paused" ELSE "ended"]
    /\ UNCHANGED <<running, worker_tasks, stop_pc, awaited, queued>>

\* _worker_loop, line 344: the sleep(5) is over, back to the loop head.
PauseOver(t) ==
    /\ tasks[t] = "paused"
    /\ NoneToCancel
    /\ tasks' = [tasks EXCEPT ![t] = LoopHead]
    /\ UNCHANGED <<running, cancel_requested, worker_tasks, stop_pc, awaited,
                   queued>>

\* ETLManager.stop, lines 144-145: every awaited task has ended, gather
\* returns and self.worker_tasks is cleared.
GatherReturns ==
    /\ stop_pc = "gather"
    /\ \A t \in awaited : tasks[t] = "ended"
    /\ worker_tasks' = {}
    /\ awaited' = {}
    /\ stop_pc' = "idle"
    /\ UNCHANGED <<running, tasks, cancel_requested, queued>>

\* submit_job, line 171: one more job in the queue.
Enqueue ==
    /\ queued < MaxQueued
    /\ queued' = queued + 1
    /\ UNCHANGED <<running, tasks, cancel_requested, worker_tasks, stop_pc,
                   awaited>>

\* _worker_loop, lines 329-336: job_queue.get() returns a job to task t and
\* _process_job enters the handler.
Dequeue(t) ==
    /\ tasks[t] = "waiting"
    /\ NoneToCancel
    /\ queued > 0
    /\ queued' = queued - 1
    /\ tasks' = [tasks EXCEPT ![t] = "handling"]
    /\ UNCHANGED <<running, cancel_requested, worker_tasks, stop_pc, awaited>>

\* _process_job returns to the loop (line 336), which goes to its head.
HandlerEnds(t) ==
    /\ tasks[t] = "handling"
    /\ NoneToCancel
    /\ tasks' = [tasks EXCEPT ![t] = LoopHead]
    /\ UNCHANGED <<running, cancel_requested, worker_tasks, stop_pc, awaited,
                   queued>>

\* _worker_loop, lines 333-334: wait_for times out after 10 seconds with no
\* job, and the task is at the loop head again.
GetTimesOut(t) ==
    /\ tasks[t] = "waiting"
    /\ NoneToCancel
    /\ tasks' = [tasks EXCEPT ![t] = LoopHead]
    /\ UNCHANGED <<running, cancel_requested, worker_tasks, stop_pc, awaited,
                   queued>>

\* ======================================= the loop tasks of DataScheduler
\* DataScheduler.start_scheduler and stop_scheduler with every task told
\* apart.  self.tasks is a dict with the five keys below in this order; the
\* k-th start creates the tasks 5(k-1)+1 .. 5k, one per key in that order.
TaskOrder ==
    <<"health_monitor", "dws_polling", "treasury_polling",
      "correlation_analysis", "maintenance">>
Slots == DOMAIN TaskOrder
LoopTaskIds == 1..(MaxStarts * Len(TaskOrder))
SlotOf(t) == ((t - 1) % Len(TaskOrder)) + 1
PollingTasks == {"dws_polling", "treasury_polling", "correlation_analysis"}

VARIABLES
    sched_running,      \* DataScheduler.running
    sched_tasks,        \* self.tasks: slot -> task id, 0 for no entry
    task_state,         \* task id -> none, alive, cancelling, ended
    stop_at,            \* slot whose task stop_scheduler awaits, 0 for none
    stop_task           \* the task it awaits

lifeVars == <<sched_running, sched_tasks, task_state, stop_at, stop_task>>

InitLife ==
    /\ sched_running = FALSE
    /\ sched_tasks = [i \in Slots |-> 0]
    /\ task_state = [t \in LoopTaskIds |-> "none"]
    /\ stop_at = 0
    /\ stop_task = 0

CreatedLoops == {t \in LoopTaskIds : task_state[t] # "none"}
Done(t) == task_state[t] = "ended"

\* start_scheduler, lines 54-88: only self.running is looked at; each of
\* the five entries of self.tasks is set to a new task.
StartScheduler ==
    /\ ~sched_running
    /\ Cardinality(CreatedLoops) + Len(TaskOrder) <= Cardinality(LoopTaskIds)
    /\ sched_running' = TRUE
    /\ LET base == Cardinality(CreatedLoops)
       IN  /\ sched_tasks' = [i \in Slots |-> base + i]
           /\ task_state' = [t \in LoopTaskIds |->
                                IF t \in (base + 1)..(base + Len(TaskOrder))
                                THEN "alive" ELSE task_state[t]]
    /\ UNCHANGED <<stop_at, stop_task>>

\* The entries the iteration of line 114 still has to visit after slot i
\* and that hold a task not done, read from self.tasks as it is now.
ToCancel(i) == {j \in Slots : j > i /\ sched_tasks[j] # 0 /\ ~Done(sched_tasks[j])}
Least(S) == CHOOSE j \in S : \A k \in S : j <= k

\* stop_scheduler from slot i on, lines 114-126: the next task not done is
\* cancelled and awaited; with none left self.tasks is cleared.
StopFrom(i) ==
    IF ToCancel(i) = {}
    THEN /\ sched_tasks' = [j \in Slots |-> 0]
         /\ stop_at' = 0
         /\ stop_task' = 0
         /\ UNCHANGED task_state
    ELSE LET j == Least(ToCancel(i))
         IN  /\ task_state' = [task_state EXCEPT ![sched_tasks[j]] = "cancelling"]
             /\ stop_at' = j
             /\ stop_task' = sched_tasks[j]
             /\ UNCHANGED sched_tasks

\* stop_scheduler, lines 106-117: self.running is cleared and the iteration
\* over self.tasks starts.  (A second stop_scheduler while one awaits a
\* task is not followed here.)
StopScheduler ==
    /\ sched_running
    /\ stop_at = 0
    /\ sched_running' = FALSE
    /\ StopFrom(0)

\* A loop's "except asyncio.CancelledError: break" (lines 170, 205, 247,
\* 285): the cancelled task ends.
LoopCancelled(t) ==
    /\ task_state[t] = "cancelling"
    /\ task_state' = [task_state EXCEPT ![t] = "ended"]
    /\ UNCHANGED <<sched_running, sched_tasks, stop_at, stop_task>>

\* stop_scheduler, lines 119-124: the awaited task has ended and the
\* iteration goes on.
StopResumes ==
    /\ stop_at # 0
    /\ Done(stop_task)
    /\ StopFrom(stop_at)
    /\ UNCHANGED sched_running

\* "while self.running" (lines 155, 189, 224, 266, 143): a loop that comes
\* to its head after a sleep or a sync finds the scheduler stopped and ends.
LoopExits(t) ==
    /\ task_state[t] = "alive"
    /\ ~sched_running
    /\ task_state' = [task_state EXCEPT ![t] = "ended"]
    /\ UNCHANGED <<sched_running, sched_tasks, stop_at, stop_task>>

\* ===================================== the process's own broker messages
\* main.py 56-59 starts RedisPubSubListener on the redis client the notifier
\* publishes with.  The listener subscribes to "project_changes" (line 103),
\* so the broker hands it every message published there, those of
\* notify_change in this process included.  pubsub holds the entity ids of
\* the process's own messages the listener has not taken yet; copies counts
\* the send_text calls that returned, by connection and entity; raised holds
\* the entities notify_change was called for.
VARIABLES pubsub, copies, raised
echoVars == <<pubsub, copies, raised>>

InitEcho ==
    /\ pubsub = <<>>
    /\ copies = [c \in ConnIds |-> [e \in EntityIds |-> 0]]
    /\ raised = {}

\* notify_change is called for a change of entity_id, once for each entity.
RaiseChange(entity_id) ==
    /\ entity_id \notin raised
    /\ NotifyChange(entity_id)
    /\ raised' = raised \cup {entity_id}
    /\ UNCHANGED <<pubsub, copies>>

\* Line 45: a publish that returns has handed the message to the broker.
Published(ok) ==
    /\ PublishReturn(ok)
    /\ pubsub' = IF ok /\ call.kind = "change"
                 THEN Append(pubsub, call.entity_key[2])
                 ELSE pubsub
    /\ UNCHANGED <<copies, raised>>

\* Line 55: send_text returns for the connection the call is sending to.
Sent ==
    /\ SendReturn
    /\ copies' = IF call.cur \notin broken
                 THEN [copies EXCEPT ![call.cur][call.entity_key[2]] = @ + 1]
                 ELSE copies
    /\ UNCHANGED <<pubsub, raised>>

\* Lines 104-109: the listener takes the process's own message from the
\* broker and hands it to broadcast_to_subscribers.
OwnMessage ==
    /\ pubsub # <<>>
    /\ ListenerMessage("relayed_change", Head(pubsub))
    /\ pubsub' = Tail(pubsub)
    /\ UNCHANGED <<copies, raised>>

\* ============================================ the Treasury client session
\* DataScheduler has one MunicipalTreasuryETL object, self.treasury_etl; the
\* polling loop (lines 195-196) and trigger_immediate_sync (lines 366-367)
\* both run "async with self.treasury_etl" around its poll.  session is the
\* object's self.session (None, or the number of an httpx client),
\* open_clients the clients not closed yet, own_client the client each
\* user's __aenter__ created, used the client its latest request went
\* through and request_failed whether that request raised.
MaxClients == 3        \* httpx clients created in one behaviour
ClientIds == 1..MaxClients
Users == {"loop", "manual"}

VARIABLES session, open_clients, n_clients, treasury_pc, own_client, used,
          request_failed
clientVars == <<session, open_clients, n_clients, treasury_pc, own_client,
                used, request_failed>>

InitClient ==
    /\ session = None
    /\ open_clients = {}
    /\ n_clients = 0
    /\ treasury_pc = [u \in Users |-> "idle"]
    /\ own_client = [u \in Users |-> None]
    /\ used = [u \in Users |-> None]
    /\ request_failed = [u \in Users |-> FALSE]

\* __aenter__, lines 36-43: a new client is created and assigned to
\* self.session, whatever self.session held.
AEnter(u) ==
    /\ treasury_pc[u] = "idle"
    /\ n_clients < MaxClients
    /\ n_clients' = n_clients + 1
    /\ session' = n_clients + 1
    /\ open_clients' = open_clients \cup {n_clients + 1}
    /\ own_client' = [own_client EXCEPT ![u] = n_clients + 1]
    /\ treasury_pc' = [treasury_pc EXCEPT ![u] = "polling"]
    /\ used' = [used EXCEPT ![u] = None]
    /\ request_failed' = [request_failed EXCEPT ![u] = FALSE]

\* A request of the poll, "await self.session.get(...)" (lines 112, 194,
\* 315): it goes through whatever self.session is now; httpx raises
\* RuntimeError on a client that has been closed.
Request(u) ==
    /\ treasury_pc[u] = "polling"
    /\ used' = [used EXCEPT ![u] = session]
    /\ request_failed' = [request_failed EXCEPT ![u] = session \notin open_clients]
    /\ UNCHANGED <<session, open_clients, n_clients, treasury_pc, own_client>>

\* __aexit__, lines 45-48, when the poll has returned or raised: the client
\* self.session names now is closed; self.session keeps naming it.
AExit(u) ==
    /\ treasury_pc[u] = "polling"
    /\ open_clients' = IF session # None THEN open_clients \ {session}
                       ELSE open_clients
    /\ treasury_pc' = [treasury_pc EXCEPT ![u] = "idle"]
    /\ own_client' = [own_client EXCEPT ![u] = None]
    /\ UNCHANGED <<session, n_clients, used, request_failed>>

\* ================================================ the completed-job history
\* self.completed_jobs by size alone: kept_recent counts its jobs completed
\* within the last 24 hours, kept_aged those completed longer ago.
job_history_limit == 1000
VARIABLES kept_recent, kept_aged
keptVars == <<kept_recent, kept_aged>>

InitKept ==
    /\ kept_recent = 0
    /\ kept_aged = 0

\* _process_job, line 425: a job that ended is put in completed_jobs.  Neither
\* job_history_limit nor config['max_job_history'] is read here; the model
\* follows the history up to one entry past the limit.
JobKept ==
    /\ kept_recent + kept_aged <= job_history_limit
    /\ kept_recent' = kept_recent + 1
    /\ UNCHANGED kept_aged

\* 24 hours go by: the jobs completed before are now older than 86400 s.
DayPasses ==
    /\ kept_recent > 0
    /\ kept_aged' = kept_aged + kept_recent
    /\ kept_recent' = 0

\* _cleanup_loop, lines 505-516: one pass deletes the completed jobs whose
\* age exceeds 86400 s, and no others.
CleanupPass ==
    /\ kept_aged > 0
    /\ kept_aged' = 0
    /\ UNCHANGED kept_recent

\* ====================================================== update_config
\* config is the scheduler's self.config.  The other variables keep the
\* latest update_config call: its argument, the configuration it found, how
\* it ended and whether it sent the "scheduler_config_updated" event.
VARIABLES config, new_config, config_before, update_outcome, event_sent
configVars == <<config, new_config, config_before, update_outcome, event_sent>>

\* Lines 28-36.
InitialConfig ==
    Config @@ [health_check_interval |-> 300, retry_delay |-> 300,
               rate_limit_delay |-> 2]

\* The arguments of update_config followed here: any values for any of
\* two configuration keys and one key the configuration does not have.
RequestKeys == {"dws_polling_interval", "retry_attempts", "polling_interval"}
NewValues == {60, 5}
Requests == UNION {[K -> NewValues] : K \in SUBSET RequestKeys}

InitConfig ==
    /\ config = InitialConfig
    /\ new_config = <<>>
    /\ config_before = InitialConfig
    /\ update_outcome = "none"
    /\ event_sent = FALSE

\* dict.update, line 431.
DictUpdate(d, other) ==
    [k \in DOMAIN d \cup DOMAIN other |->
        IF k \in DOMAIN other THEN other[k] ELSE d[k]]

\* An update_config that applies the request before it validates the keys.
UpdateConfigAppliesFirst(request, published) ==
    /\ new_config' = request
    /\ config_before' = config
    /\ config' = [k \in DOMAIN config |->
                     IF k \in DOMAIN request THEN request[k] ELSE config[k]]
    /\ IF DOMAIN request \ DOMAIN config # {}
       THEN update_outcome' = "ValueError" /\ event_sent' = FALSE
       ELSE update_outcome' = "returned" /\ event_sent' = published

\* DataScheduler.update_config, lines 419-437: a key outside self.config
\* raises ValueError before anything is changed; else the configuration is
\* updated and notify_system_event sends the event, or raises when its
\* publish fails (published = FALSE).
UpdateConfig(request, published) ==
    /\ new_config' = request
    /\ config_before' = config
    /\ LET valid_keys == DOMAIN config
           invalid_keys == DOMAIN request \ valid_keys
       IN  IF invalid_keys # {}
           THEN /\ update_outcome' = "ValueError"
                /\ event_sent' = FALSE
                /\ UNCHANGED config
           ELSE /\ config' = DictUpdate(config, request)
                /\ event_sent' = published
                /\ update_outcome' = IF published THEN "returned" ELSE "raised"

\* Variables of the parts added last.
lateVars == <<echoVars, clientVars, keptVars, configVars>>
InitLate == InitEcho /\ InitClient /\ InitKept /\ InitConfig
moreVars == <<lifeVars, lateVars>>

\* ---------------------------------------------- specification of the pool
Init ==
    /\ InitJobs /\ InitHist /\ InitNotify /\ InitAsk /\ InitSync /\ InitSched
    /\ InitDetect /\ InitPass /\ InitTasks /\ InitLife /\ InitLate
vars ==
    <<jobVars, histVars, notifyVars, askVars, syncVars, schedVars, detectVars,
      passVars, taskVars, moreVars>>

\* What a step of the pool alone leaves untouched.
PoolFrame == UNCHANGED <<histVars, notifyVars, askVars, syncVars, schedVars,
              detectVars, passVars, taskVars, moreVars>>

Next ==
    \/ Tick /\ PoolFrame
    \/ Start /\ PoolFrame
    \/ \E t \in JobTypes, p \in Priorities, published \in BOOLEAN :
           n_submitted < MaxJobs /\ SubmitJob(t, p, published) /\ PoolFrame
    \/ \E id \in JobIds, published \in BOOLEAN :
           CancelJob(id, published) /\ PoolFrame
    \/ \E id \in JobIds, published \in BOOLEAN :
           RetryJob(id, published) /\ PoolFrame
    \/ WorkerGet /\ PoolFrame
    \/ \E id \in JobIds, published \in BOOLEAN :
           HandlerReturn(id, published) /\ PoolFrame
    \/ \E id \in JobIds : HandlerRaise(id) /\ PoolFrame
    \/ WorkerWake /\ PoolFrame
    \/ \E c \in JobIds : TimeoutSweep(c) /\ PoolFrame
    \/ StopBegin /\ PoolFrame
    \/ \E id \in JobIds, published \in BOOLEAN :
           WorkerCancelled(id, published) /\ PoolFrame
    \/ StopEnd /\ PoolFrame

Spec == Init /\ [][Next]_vars

\* ------------------------------------------ cancel_job with its return value
\* What a call to cancel_job did: the job's status before and after, and the
\* value returned ("raised": an exception left the call instead).
CallOutcome(op, id, value) ==
    [op |-> op, job |-> id, pre |-> job[id].status, post |-> job'[id].status,
     value |-> value, listed |-> FALSE, count |-> 0, same |-> FALSE]

CancelCall(id, published) ==
    /\ CancelJob(id, published)
    /\ ret' = CallOutcome("cancel", id,
                          IF ~InDict(active_jobs, id) THEN "False"
                          ELSE IF published THEN "True" ELSE "raised")

\* What a step leaves untouched when only cancel_job's outcome is recorded.
ApiFrame ==
    UNCHANGED <<pending_order, last_get, notifyVars, askVars, syncVars, schedVars,
              detectVars, passVars, taskVars, moreVars>>

NextApi ==
    \/ \E id \in JobIds, published \in BOOLEAN :
           CancelCall(id, published) /\ ApiFrame
    \/ Start /\ PoolFrame
    \/ \E t \in JobTypes, p \in Priorities, published \in BOOLEAN :
           n_submitted < MaxJobs /\ SubmitJob(t, p, published) /\ PoolFrame
    \/ \E id \in JobIds, published \in BOOLEAN :
           RetryJob(id, published) /\ PoolFrame
    \/ WorkerGet /\ PoolFrame
    \/ \E id \in JobIds, published \in BOOLEAN :
           HandlerReturn(id, published) /\ PoolFrame
    \/ \E id \in JobIds : HandlerRaise(id) /\ PoolFrame
    \/ WorkerWake /\ PoolFrame

SpecApi == Init /\ [][NextApi]_vars

\* ------------------------------------------- retry_job with its return value
\* What a call to retry_job did: besides the statuses, whether the job was in
\* the history, its retry count, and whether the call left the queue, the
\* history and every job as they were.
RetryCall(id, published) ==
    /\ RetryJob(id, published)
    /\ ret' = [CallOutcome("retry", id,
                   IF ~CanRetry(id) THEN "False"
                   ELSE IF /\ HeapPush(job_queue, [priority |-> job[id].priority,
                                                   job |-> id]).ok
                           /\ published
                        THEN "True" ELSE "raised")
               EXCEPT !.listed = InDict(completed_jobs, id),
                      !.count = job[id].retry_count,
                      !.same = /\ job' = job
                               /\ job_queue' = job_queue
                               /\ completed_jobs' = completed_jobs]

NextRetry ==
    \/ \E id \in JobIds, published \in BOOLEAN :
           RetryCall(id, published) /\ ApiFrame
    \/ Start /\ PoolFrame
    \/ \E t \in JobTypes, p \in Priorities, published \in BOOLEAN :
           n_submitted < MaxJobs /\ SubmitJob(t, p, published) /\ PoolFrame
    \/ \E id \in JobIds, published \in BOOLEAN :
           CancelJob(id, published) /\ PoolFrame
    \/ WorkerGet /\ PoolFrame
    \/ \E id \in JobIds, published \in BOOLEAN :
           HandlerReturn(id, published) /\ PoolFrame
    \/ \E id \in JobIds : HandlerRaise(id) /\ PoolFrame
    \/ WorkerWake /\ PoolFrame

SpecRetry == Init /\ [][NextRetry]_vars

\* --------------------------------------------- the order of job_queue.get()
\* pending_order lists the queued ids in the order they were put; last_get
\* compares what a worker's get() returned (0: it raised) with the job due.
DueJob == FirstMin(pending_order, [i \in JobIds |-> job[i].priority])

\* What a step leaves untouched when the order of the queue is recorded.
QueueFrame == UNCHANGED <<ret, notifyVars, askVars, syncVars, schedVars,
              detectVars, passVars, taskVars, moreVars>>

SubmitQueued(t, p, published) ==
    /\ SubmitJob(t, p, published)
    /\ pending_order' = Append(pending_order, n_submitted + 1)
    /\ UNCHANGED last_get

GetQueued ==
    /\ WorkerGet
    /\ LET r == HeapPop(job_queue)
       IN  /\ pending_order' = DictDel(pending_order, r.item.job)
           /\ last_get' = [job |-> IF r.ok THEN r.item.job ELSE 0,
                           expected |-> DueJob]

NextQueue ==
    \/ Start /\ PoolFrame
    \/ \E t \in JobTypes, p \in Priorities, published \in BOOLEAN :
           SubmitQueued(t, p, published) /\ QueueFrame
    \/ GetQueued /\ QueueFrame
    \/ \E id \in JobIds, published \in BOOLEAN :
           HandlerReturn(id, published) /\ PoolFrame
    \/ \E id \in JobIds : HandlerRaise(id) /\ PoolFrame
    \/ WorkerWake /\ PoolFrame

SpecQueue == Init /\ [][NextQueue]_vars

\* ------------------------------------------ specification of the notifier
NotifyFrame == UNCHANGED <<jobVars, histVars, askVars, syncVars, schedVars,
              detectVars, passVars, taskVars, moreVars>>

NextNotify ==
    \/ Connect /\ NotifyFrame
    \/ \E c \in ConnIds : Disconnect(c) /\ NotifyFrame
    \/ \E c \in ConnIds, t \in {"all", "project"}, e \in EntityIds \cup {""} :
           SubscribeToEntity(c, t, e) /\ NotifyFrame
    \/ \E c \in ConnIds : PeerDrop(c) /\ NotifyFrame
    \/ \E e \in EntityIds : NotifyChange(e) /\ NotifyFrame
    \/ NotifySystemEvent /\ NotifyFrame
    \/ NotifySystemError /\ NotifyFrame
    \/ \E ok \in BOOLEAN : PublishReturn(ok) /\ NotifyFrame
    \/ SendReturn /\ NotifyFrame
    \/ \E ok \in BOOLEAN : SremReturn(ok) /\ NotifyFrame

SpecNotify == Init /\ [][NextNotify]_vars

\* ------------------------------- the notifier with the subscribe calls kept
\* What a step of the notifier leaves untouched when the subscribe calls
\* are recorded.
AskFrame == UNCHANGED <<jobVars, histVars, syncVars, schedVars,
              detectVars, passVars, taskVars, moreVars>>

SubscribeCall(c, entity_type, entity_id) ==
    /\ SubscribeToEntity(c, entity_type, entity_id)
    /\ type_only' = IF /\ c \in DictKeys(subscriptions)
                       /\ entity_type = "project"
                       /\ entity_id = ""
                    THEN type_only \cup {c} ELSE type_only
    /\ UNCHANGED due

ChangeCall(entity_id) ==
    /\ NotifyChange(entity_id)
    /\ due' = type_only \cap DictKeys(active_connections)
    /\ UNCHANGED type_only

NextAsk ==
    \/ Connect /\ NotifyFrame
    \/ \E c \in ConnIds : Disconnect(c) /\ NotifyFrame
    \/ \E c \in ConnIds, t \in {"all", "project"}, e \in EntityIds \cup {""} :
           SubscribeCall(c, t, e) /\ AskFrame
    \/ \E c \in ConnIds : PeerDrop(c) /\ NotifyFrame
    \/ \E e \in EntityIds : ChangeCall(e) /\ AskFrame
    \/ \E ok \in BOOLEAN : PublishReturn(ok) /\ NotifyFrame
    \/ SendReturn /\ NotifyFrame
    \/ \E ok \in BOOLEAN : SremReturn(ok) /\ NotifyFrame

SpecAsk == Init /\ [][NextAsk]_vars

\* ------------------------------------------- disconnect with its outcome
\* What a call to disconnect did: whether the id was in a table before,
\* whether every other connection's entries were left alone, and how the call
\* ended: the srem awaited at line 29 returns, or raises when the broker
\* cannot be reached.
Registered(c) == c \in DictKeys(active_connections) \cup DictKeys(subscriptions)

OthersKept(c) ==
    \A d \in ConnIds \ {c} :
        /\ d \in DictKeys(active_connections) <=> d \in DictKeys(active_connections')
        /\ d \in DictKeys(subscriptions) <=> d \in DictKeys(subscriptions')
        /\ d \in DictKeys(subscriptions)
              => DictValue(subscriptions', d) = DictValue(subscriptions, d)

DisconnectCall(c, ok) ==
    /\ Disconnect(c)
    /\ ret' = [op |-> "disconnect", job |-> c, pre |-> "", post |-> "",
               value |-> IF ok THEN "returned" ELSE "raised",
               listed |-> Registered(c), count |-> 0, same |-> OthersKept(c)]

DropFrame ==
    UNCHANGED <<jobVars, pending_order, last_get, askVars, syncVars, schedVars,
              detectVars, passVars, taskVars, moreVars>>

NextDrop ==
    \/ Connect /\ NotifyFrame
    \/ \E c \in ConnIds, t \in {"all", "project"}, e \in EntityIds \cup {""} :
           SubscribeToEntity(c, t, e) /\ NotifyFrame
    \/ \E c \in ConnIds, ok \in BOOLEAN : DisconnectCall(c, ok) /\ DropFrame

SpecDrop == Init /\ [][NextDrop]_vars

\* ---------------------------------- specification of the broker listener
NextRelay ==
    \/ Connect /\ NotifyFrame
    \/ \E c \in ConnIds : Disconnect(c) /\ NotifyFrame
    \/ \E c \in ConnIds, t \in {"all", "project"}, e \in EntityIds \cup {""} :
           SubscribeToEntity(c, t, e) /\ NotifyFrame
    \/ \E c \in ConnIds : PeerDrop(c) /\ NotifyFrame
    \/ \E e \in EntityIds : ListenerMessage("relayed_change", e) /\ NotifyFrame
    \/ ListenerMessage("relayed_event", "") /\ NotifyFrame
    \/ SendReturn /\ NotifyFrame
    \/ \E ok \in BOOLEAN : SremReturn(ok) /\ NotifyFrame

SpecRelay == Init /\ [][NextRelay]_vars

\* -------------------------------------------- specification of the syncs
SyncFrame == UNCHANGED <<jobVars, histVars, notifyVars, askVars, schedVars,
              detectVars, passVars, taskVars, moreVars>>

NextSync ==
    \/ UpstreamChange /\ SyncFrame
    \/ \E c \in Callers : SyncStart(c) /\ SyncFrame
    \/ \E c \in Callers : FetchReturn(c) /\ SyncFrame
    \/ \E c \in Callers : ProcessProject(c) /\ SyncFrame
    \/ \E c \in Callers : CommitReturn(c) /\ SyncFrame
    \/ \E c \in Callers : NotifyReturn(c) /\ SyncFrame

SpecSync == Init /\ [][NextSync]_vars

\* ----------------------------------------- specification of the scheduler
SchedFrame == UNCHANGED <<jobVars, histVars, notifyVars, askVars, syncVars,
              detectVars, passVars, taskVars, moreVars>>

NextSched ==
    \/ \E l \in Loops : LoopWake(l) /\ SchedFrame
    \/ \E l \in Loops : SyncSucceeds(l) /\ SchedFrame
    \/ \E l \in Loops : SyncFails(l) /\ SchedFrame
    \/ Maintenance /\ SchedFrame
    \/ TimePasses /\ SchedFrame

SpecSched == Init /\ [][NextSched]_vars

\* ------------------------- specification of the loops and workers, untimed
\* The scheduler's loops and the pool's workers as tasks of one event loop,
\* with no clock: a sleep ends at some time.  One source is out of order: its
\* sync, in the scheduler's loop and in the handler of a pool job alike,
\* raises or never returns; the syncs of the other sources return.  The
\* event loop runs every task that can run (weak fairness of each task's
\* steps).  Nothing makes a call to the broken source return.
MaxErrors == 2          \* failures of the broken source's loop in one behaviour

\* The source out of order: the DWS site, polled by the scheduler's DWS loop
\* and by the pool's dws_sync jobs.
BadSource == "dws"
GoodSources == Loops \ {BadSource}

NextLive ==
    \/ \E l \in Loops : StartCycle(l) /\ SchedFrame
    \/ \E l \in GoodSources : SyncSucceeds(l) /\ SchedFrame
    \/ error_counts[BadSource] < MaxErrors /\ SyncFails(BadSource) /\ SchedFrame
    \/ SyncHangs(BadSource) /\ SchedFrame
    \/ Start /\ PoolFrame
    \/ \E p \in Priorities : SubmitJob("dws_sync", p, TRUE) /\ PoolFrame
    \/ WorkerGet /\ PoolFrame
    \/ \E id \in JobIds : HandlerRaise(id) /\ PoolFrame
    \/ WorkerWake /\ PoolFrame

Fairness ==
    /\ \A l \in Loops : WF_vars(StartCycle(l) /\ SchedFrame)
    /\ \A l \in GoodSources : WF_vars(SyncSucceeds(l) /\ SchedFrame)
    /\ WF_vars(WorkerGet /\ PoolFrame)
    /\ WF_vars(WorkerWake /\ PoolFrame)

SpecLive == Init /\ [][NextLive]_vars /\ Fairness

\* ------------------------------------- specification of the timeout sweep
\* The pool with handlers that never return: a job leaves the running status
\* only by the sweep of the health monitor (_health_monitor_loop calls
\* _update_health_metrics every 30 seconds while the manager runs).
NextSweep ==
    \/ Tick /\ PoolFrame
    \/ Start /\ PoolFrame
    \/ \E p \in Priorities : SubmitJob("dws_sync", p, TRUE) /\ PoolFrame
    \/ WorkerGet /\ PoolFrame
    \/ WorkerWake /\ PoolFrame
    \/ \E c \in JobIds : TimeoutSweep(c) /\ PoolFrame

SweepFairness ==
    /\ WF_vars(WorkerGet /\ PoolFrame)
    /\ WF_vars(WorkerWake /\ PoolFrame)
    /\ WF_vars(\E c \in JobIds : TimeoutSweep(c) /\ PoolFrame)

SpecSweep == Init /\ [][NextSweep]_vars /\ SweepFairness

\* ------------------------------------- specification of the health check
NextHealth ==
    \/ \E l \in Loops : LoopWake(l) /\ SchedFrame
    \/ \E l \in Loops : SyncSucceeds(l) /\ SchedFrame
    \/ \E l \in Loops :
           error_counts[l] < MaxErrors /\ SyncFails(l) /\ SchedFrame
    \/ Maintenance /\ SchedFrame
    \/ HealthCheck /\ SchedFrame
    \/ TimePasses /\ SchedFrame

SpecHealth == Init /\ [][NextHealth]_vars

\* --------------------------------------- specification of the worker tasks
TaskFrame ==
    UNCHANGED <<stopping, job, n_submitted, job_queue, active_jobs,
                completed_jobs, worker, metrics, now, histVars, notifyVars,
                askVars, syncVars, schedVars, detectVars, passVars, moreVars>>

NextTasks ==
    \/ StartWorkers /\ TaskFrame
    \/ StopWorkers /\ TaskFrame
    \/ \E t \in TaskIds, clean \in BOOLEAN : Delivered(t, clean) /\ TaskFrame
    \/ \E t \in TaskIds : PauseOver(t) /\ TaskFrame
    \/ GatherReturns /\ TaskFrame
    \/ Enqueue /\ TaskFrame
    \/ \E t \in TaskIds : Dequeue(t) /\ TaskFrame
    \/ \E t \in TaskIds : HandlerEnds(t) /\ TaskFrame
    \/ \E t \in TaskIds : GetTimesOut(t) /\ TaskFrame

SpecTasks == Init /\ [][NextTasks]_vars

\* ----------------------------------------- specification of the loop tasks
OldFrame ==
    UNCHANGED <<jobVars, histVars, notifyVars, askVars, syncVars, schedVars,
                detectVars, passVars, taskVars, lateVars>>

NextLife ==
    \/ StartScheduler /\ OldFrame
    \/ StopScheduler /\ OldFrame
    \/ \E t \in LoopTaskIds : LoopCancelled(t) /\ OldFrame
    \/ StopResumes /\ OldFrame
    \/ \E t \in LoopTaskIds : LoopExits(t) /\ OldFrame

SpecLife == Init /\ [][NextLife]_vars

\* ------------------------- specification of the process's own messages
\* Every websocket stays healthy here: no send_text raises.
EchoFrame ==
    UNCHANGED <<jobVars, histVars, askVars, syncVars, schedVars, detectVars,
                passVars, taskVars, lifeVars, clientVars, keptVars, configVars>>
EchoKept == UNCHANGED echoVars

NextEcho ==
    \/ Connect /\ EchoKept /\ EchoFrame
    \/ \E c \in ConnIds : Disconnect(c) /\ EchoKept /\ EchoFrame
    \/ \E c \in ConnIds, t \in {"all", "project"}, e \in EntityIds \cup {""} :
           SubscribeToEntity(c, t, e) /\ EchoKept /\ EchoFrame
    \/ \E e \in EntityIds : RaiseChange(e) /\ EchoFrame
    \/ \E ok \in BOOLEAN : Published(ok) /\ EchoFrame
    \/ Sent /\ EchoFrame
    \/ OwnMessage /\ EchoFrame

SpecEcho == Init /\ [][NextEcho]_vars

\* ------------------------------- specification of the Treasury client
ClientFrame ==
    UNCHANGED <<jobVars, histVars, notifyVars, askVars, syncVars, schedVars,
                detectVars, passVars, taskVars, lifeVars, echoVars, keptVars,
                configVars>>

NextClient ==
    \/ \E u \in Users : AEnter(u) /\ ClientFrame
    \/ \E u \in Users : Request(u) /\ ClientFrame
    \/ \E u \in Users : AExit(u) /\ ClientFrame

SpecClient == Init /\ [][NextClient]_vars

\* ------------------------- specification of the completed-job history
KeptFrame ==
    UNCHANGED <<jobVars, histVars, notifyVars, askVars, syncVars, schedVars,
                detectVars, passVars, taskVars, lifeVars, echoVars, clientVars,
                configVars>>

NextKept ==
    \/ JobKept /\ KeptFrame
    \/ DayPasses /\ KeptFrame
    \/ CleanupPass /\ KeptFrame

SpecKept == Init /\ [][NextKept]_vars

\* --------------------------------------- specification of update_config
ConfigFrame ==
    UNCHANGED <<jobVars, histVars, notifyVars, askVars, syncVars, schedVars,
                detectVars, passVars, taskVars, lifeVars, echoVars, clientVars,
                keptVars>>

NextConfig ==
    \E request \in Requests, published \in BOOLEAN :
        UpdateConfig(request, published) /\ ConfigFrame

SpecConfig == Init /\ [][NextConfig]_vars

\* ------------------------------- specification of the polls that notify
\* The polls of the scheduler's monitor, each of whose notifications may
\* fail; the loop polls again and again.
Pollers == {"loop", "manual"}

NextNotice ==
    \/ UpstreamChange /\ SyncFrame
    \/ \E c \in Pollers : SyncStart(c) /\ SyncFrame
    \/ \E c \in Pollers : FetchReturn(c) /\ SyncFrame
    \/ \E c \in Pollers : ProcessProject(c) /\ SyncFrame
    \/ \E c \in Pollers : CommitReturn(c) /\ SyncFrame
    \/ \E c \in Pollers : NotifyReturn(c) /\ SyncFrame
    \/ \E c \in Pollers : NotifyFails(c) /\ SyncFrame

NoticeFairness ==
    /\ WF_vars(SyncStart("loop") /\ SyncFrame)
    /\ \A c \in Pollers :
           /\ WF_vars(FetchReturn(c) /\ SyncFrame)
           /\ WF_vars(ProcessProject(c) /\ SyncFrame)
           /\ WF_vars(CommitReturn(c) /\ SyncFrame)
           /\ WF_vars((NotifyReturn(c) \/ NotifyFails(c)) /\ SyncFrame)

SpecNotice == Init /\ [][NextNotice]_vars /\ NoticeFairness

\* -------------------------------------- specification of change detection
DetectFrame ==
    UNCHANGED <<jobVars, histVars, notifyVars, askVars, syncVars, schedVars,
                passVars, taskVars, moreVars>>

NextDetect ==
    \/ DiffDicts /\ DetectFrame
    \/ CalculateContentHash /\ DetectFrame

\* The other parts as Init leaves them, the change detector with its input.
InitInput ==
    /\ InitJobs /\ InitHist /\ InitNotify /\ InitAsk /\ InitSync /\ InitSched
    /\ InitRecords /\ InitPass /\ InitTasks /\ InitLife /\ InitLate

SpecDetect == InitInput /\ [][NextDetect]_vars

\* --------------------------------------------- specification of the DWS pass
PassFrame ==
    UNCHANGED <<jobVars, histVars, notifyVars, askVars, syncVars, detectVars,
                taskVars, moreVars>>
SchedKept == UNCHANGED schedVars

NextPass ==
    \/ /\ error_counts["dws"] < MaxErrors
       /\ StartCycle("dws") /\ UNCHANGED passVars /\ PassFrame
    \/ \E data \in Payloads : PayloadFetched(data) /\ SchedKept /\ PassFrame
    \/ ProcessMunicipality /\ SchedKept /\ PassFrame
    \/ MunicipalitiesDone /\ SchedKept /\ PassFrame
    \/ ProcessProjectRecord /\ SchedKept /\ PassFrame
    \/ CommitPass /\ SchedKept /\ PassFrame
    \/ PollReturned /\ PassFrame
    \/ PollRaised /\ PassFrame

SpecPass == Init /\ [][NextPass]_vars

\* ------------------------------------------------- properties of the pool
\* The status changes the lifecycle allows.  Dequeuing a job of an unknown
\* type sets running and failed in one uninterrupted stretch of _process_job,
\* so pending -> failed stands for the two forward steps taken together.
ForwardSteps ==
    {<<"none", PENDING>>, <<PENDING, RUNNING>>, <<PENDING, FAILED>>,
     <<RUNNING, SUCCESS>>, <<RUNNING, FAILED>>, <<RUNNING, CANCELLED>>}

\* C2: a job's status only moves forward, pending -> running -> one of
\* success / failed / cancelled; a terminal status never changes again and no
\* job goes back to pending or running.
C2_StatusOnlyForward ==
    [][\A id \in JobIds :
          job'[id].status # job[id].status
              => <<job[id].status, job'[id].status>> \in ForwardSteps]_vars

\* C3: every job_queue.get() of a worker returns the pending job with the
\* lowest priority value, and among equal priorities the one submitted first.
C3_PriorityThenFifo == last_get.job = last_get.expected

\* C8: a job cancelled while its handler is in flight keeps status cancelled
\* and an empty result when the handler finishes, and the worker that ran it
\* goes back to the queue without an error.
C8_CancelledStaysCancelled ==
    [][\A id \in worker.handling :
          (job[id].status = CANCELLED /\ id \notin worker'.handling)
              => /\ job'[id].status = CANCELLED
                 /\ job'[id].result = "none"
                 /\ worker'.paused = worker.paused]_vars

\* C9: cancel_job returns true and marks the job cancelled when the job is
\* pending or running; it returns false and changes nothing when the job is
\* unknown or already terminal.
C9_CancelReturn ==
    ret.op = "cancel"
        => IF ret.pre \in {PENDING, RUNNING}
           THEN ret.value = "True" /\ ret.post = CANCELLED
           ELSE ret.value = "False" /\ ret.post = ret.pre

\* C10: when retry_job resubmits a failed job from the history, the failed
\* record stays in completed_jobs exactly as it was (same status, retry
\* count, timestamps and error); the retry is a separate pending entry.
C10_FailedRecordKept ==
    [][\A id \in JobIds :
          (/\ InDict(completed_jobs, id)
           /\ job[id].status = FAILED
           /\ \E i \in DOMAIN job_queue' : job_queue'[i].job = id)
              => /\ InDict(completed_jobs', id)
                 /\ job'[id] = job[id]]_vars

\* --------------------------------------------- properties of the notifier
\* The connection is still registered and its peer still there.
Healthy(c) == c \in DictKeys(active_connections) /\ c \notin broken

\* The connection is in neither table.
Removed(c) ==
    c \notin DictKeys(active_connections) /\ c \notin DictKeys(subscriptions)

ChangeDone == call.kind = "change" /\ call.pc = "done"

\* C4: when notify_change has ended, every connection that subscribed to
\* "all" or to the change's exact "<entity_type>:<entity_id>" key at the
\* moment of the call (and is still connected with its peer there) has
\* received the notification.
C4_SubscribersReceive ==
    ChangeDone => \A c \in call.targets : Healthy(c) => c \in call.delivered

\* C5: when a send of notify_change failed, every other matching connection
\* has still received the notification by the end of the call and the failed
\* connection is gone from both active_connections and subscriptions.
C5_SendFailureIsolated ==
    (ChangeDone /\ call.failed # {})
        => /\ \A c \in call.targets \ call.failed :
                  Healthy(c) => c \in call.delivered
           /\ \A c \in call.failed : Removed(c)

\* C6: when the broker publish of notify_change failed, the call still
\* returns normally and the local subscribers have received the notification.
C6_PublishFailureTolerated ==
    (ChangeDone /\ ~call.published)
        => /\ call.outcome = "returned"
           /\ \A c \in call.targets : Healthy(c) => c \in call.delivered

\* C7: a notify_system_event / notify_system_error during which a send failed
\* returns normally, has reached every other connected client whatever its
\* subscriptions, and has disconnected the client whose send failed.
C7_SystemNotificationIsolated ==
    (/\ call.kind \in {"system_event", "system_error"}
     /\ call.pc = "done"
     /\ call.published
     /\ call.failed # {})
        => /\ call.outcome = "returned"
           /\ \A c \in call.targets \ call.failed :
                  Healthy(c) => c \in call.delivered
           /\ \A c \in call.failed : Removed(c)

RelayDone == call.kind \in {"relayed_change", "relayed_event"} /\ call.pc = "done"

\* C17: a message the broker listener received has, once relayed, reached
\* the recipients of the same event raised locally: for a data update the
\* connections subscribed to "all" or to the entity's key, for a system
\* event every live connection.
C17_ListenerSameRecipients ==
    RelayDone => \A c \in call.targets : Healthy(c) => c \in call.delivered

\* A subscribe call never takes away a key the connection holds.
Accumulates ==
    \A c \in DictKeys(subscriptions) \cap DictKeys(subscriptions') :
        DictValue(subscriptions, c) \subseteq DictValue(subscriptions', c)

\* The subscriptions of a connection that asked for entity type "project"
\* with no id match every project's key.
TypeScopeHeld ==
    \A c \in type_only \cap DictKeys(subscriptions) :
        \A e \in EntityIds :
            Matches(DictValue(subscriptions, c), EntityKey("project", e))

\* C18: subscribe takes the scopes "all", type alone and type with id and
\* only adds to the connection's subscriptions; a connection that subscribed
\* to entity type "project" with no id has received every notify_change for a
\* project by the time the call has ended.
C18_TypeScopeDelivered ==
    /\ [][Accumulates]_vars
    /\ [](TypeScopeHeld)
    /\ [](ChangeDone => \A c \in due : Healthy(c) => c \in call.delivered)

\* C19: disconnect is idempotent and total: after any call the connection is
\* in neither table and every other connection is as before, a call for an
\* id in no table (a repeated call, or an id never connected) changes
\* nothing, and no call raises.
C19_DisconnectIdempotent ==
    ret.op = "disconnect"
        => /\ Removed(ret.job)
           /\ ret.same
           /\ ret.value = "returned"

\* ------------------------------------------------ properties of the syncs
InProgress == {c \in Callers : sync[c].pc # "idle"}

\* No version of the source's data has been notified more than once.
NoDoubleProcessing == \A v \in Versions : notified[v] <= 1

\* C1: at most one sync of the DWS source is in progress at any time,
\* whoever started it (polling loop, worker job or manual trigger), and no
\* change of the source is processed and notified twice.
C1_AtMostOneSync == Cardinality(InProgress) <= 1 /\ NoDoubleProcessing

\* C15: a pass over a payload whose record fingerprint equals the stored
\* one updates no record, commits nothing and sends no change notification:
\* only a pass that found a changed record reaches the commit and the
\* notifications.
C15_SecondPassWritesNothing ==
    [][\A c \in Callers :
          (sync[c].pc \in {"commit", "notify"} /\ sync'[c].pc # sync[c].pc)
              => sync[c].changes = 1]_vars

\* ------------------------------------------ properties of change detection
InOnlyOne(key) == (key \in KeysOf(old_record)) # (key \in KeysOf(new_record))
InBoth(key) == key \in KeysOf(old_record) /\ key \in KeysOf(new_record)

\* C22: a key is in changed exactly if it is in only one of the two records
\* or its two values differ; changed holds the new value and old_values the
\* old value of each such key, and the two have the same keys.
C22_DiffReportsEveryDifference ==
    detected.op = "diff" =>
        /\ \A key \in Fields :
               key \in DOMAIN detected.changed
                   <=> \/ InOnlyOne(key)
                       \/ /\ InBoth(key)
                          /\ ~PyEq(Get(old_record, key), Get(new_record, key))
        /\ DOMAIN detected.changed = DOMAIN detected.old_values
        /\ \A key \in DOMAIN detected.changed :
               /\ key \in KeysOf(new_record)
                      => detected.changed[key] = Get(new_record, key)
               /\ key \in KeysOf(old_record)
                      => detected.old_values[key] = Get(old_record, key)

\* The two records have the same keys with the very same values.
Identical(d, e) ==
    KeysOf(d) = KeysOf(e) /\ \A k \in KeysOf(d) : Get(d, k) = Get(e, k)

\* C23: two records with the same fields and the same values, in whatever
\* key order, have the same fingerprint, and two records with the same
\* fingerprint have the same fields with equal values.
C23_FingerprintIffSameRecord ==
    detected.op = "hash" =>
        /\ Identical(old_record, new_record)
               => detected.old_hash = detected.new_hash
        /\ detected.old_hash = detected.new_hash
               => DictEq(old_record, new_record)

\* ------------------------------------------- properties of the DWS pass
\* The rows of the payload's records that have every key the pass reads.
CompleteRows ==
    {<<"municipality", i>> : i \in {k \in DOMAIN payload.municipalities :
                                      MunicipalityKeys \subseteq payload.municipalities[k]}}
    \cup {<<"project", i>> : i \in {k \in DOMAIN payload.projects :
                                      "external_id" \in payload.projects[k]}}

\* C24: a record without a key the pass needs is skipped: the pass does not
\* raise, the payload's other records are committed when it returns, and the
\* DWS loop is not put into the error state.
C24_IncompleteRecordSkipped ==
    /\ pass_pc # "raised"
    /\ pass_pc = "returned" => CompleteRows \subseteq db_rows
    /\ health_status["dws"] # "error"

\* ----------------------------------------- properties of the maintenance
MaintenanceRuns == wake'["maintenance"] # wake["maintenance"]

\* What a restart does to loop l: its task is replaced by a new one, which
\* starts its first cycle at once, and its error count is 0.
Restarted(l) ==
    /\ error_counts'[l] = 0
    /\ loop_pc'[l] = "sleeping"
    /\ wake'[l] = sched_now

\* C25: a maintenance pass that finds a loop with more than retry_attempts
\* consecutive errors cancels that loop's task, starts a new one and sets
\* the loop's error count to 0.
C25_MaintenanceRestarts ==
    [][MaintenanceRuns =>
           \A l \in Loops : ClearedCounts[l] > retry_attempts => Restarted(l)]_vars

\* --------------------------------------- properties of the timeout sweep
\* C26: a handler that never returns does not keep its worker: once the
\* sweep has cancelled the job, the worker executing it leaves the handler
\* (and so goes back to the queue for another pending job).
C26_SweptWorkerFreed ==
    \A id \in JobIds :
        (job[id].status = CANCELLED /\ id \in worker.handling)
            ~> (id \notin worker.handling)

SweepRuns == \E c \in 1..QueueJobs : TimeoutSweep(c)

\* C27: a timeout sweep cancels every running job started more than
\* job_timeout ago (afterwards its status is cancelled and it is in the
\* completed set) and changes the status of no other job.
C27_SweepCancelsEveryStuckJob ==
    [][SweepRuns =>
           /\ \A id \in JobIds :
                  InDict(StuckJobs, id) =>
                      job'[id].status = CANCELLED /\ InDict(completed_jobs', id)
           /\ \A id \in JobIds :
                  ~InDict(StuckJobs, id) => job'[id].status = job[id].status]_vars

\* -------------------------------------- properties of the health check
\* C28: a health check marks a source stale exactly if the time since its
\* last successful run is more than twice that source's own interval.
C28_StaleAfterTwiceOwnInterval ==
    [][HealthCheck =>
           \A l \in Loops :
               last_run_times[l] # None =>
                   (health_status'[l] = "stale"
                        <=> sched_now - last_run_times[l] > 2 * Interval(l))]_vars

\* -------------------------------------- properties of a failing sync
\* The sync of loop l raised in this step.
SyncRaised(l) == loop_pc[l] = "syncing" /\ streak'[l] = streak[l] + 1

\* C29: when the sync of a loop raises, the loop's task lives on (it sleeps
\* and will poll again), the loop's status is error and its error count is
\* one higher, and the status, error count and last run time of every other
\* loop are as before.
C29_FailureStaysInItsLoop ==
    [][\A l \in Loops :
           SyncRaised(l) =>
               /\ loop_pc'[l] = "sleeping"
               /\ health_status'[l] = "error"
               /\ error_counts'[l] = error_counts[l] + 1
               /\ \A o \in Loops \ {l} :
                      /\ health_status'[o] = health_status[o]
                      /\ error_counts'[o] = error_counts[o]
                      /\ last_run_times'[o] = last_run_times[o]]_vars

\* The DWS sync has raised twice in a row while the Treasury loop is healthy.
C29_Witness ==
    /\ streak["dws"] = 2
    /\ error_counts["dws"] = 2
    /\ health_status["dws"] = "error"
    /\ health_status["treasury"] = "healthy"
    /\ last_run_times["treasury"] # None

\* -------------------------------------- properties of the worker tasks
\* C30: at most max_concurrent_jobs handlers execute at any time (and so at
\* most that many jobs are in the active set), whatever the order of the
\* start, stop and submit calls, a start during a stop included.
C30_AtMostThreeHandlers == Cardinality(Handling) <= max_concurrent_jobs

\* ----------------------------------------- properties of the loop tasks
\* The tasks of the loop kept under slot i that have not ended.
LiveLoops(i) ==
    {t \in LoopTaskIds : SlotOf(t) = i /\ task_state[t] \in {"alive", "cancelling"}}

\* C31: for each source at most one polling-loop task is alive at any time,
\* whatever the order of the start_scheduler and stop_scheduler calls, a
\* start during a stop included.
C31_OneLoopPerSource ==
    \A i \in Slots : TaskOrder[i] \in PollingTasks => Cardinality(LiveLoops(i)) <= 1

\* ------------------------------------------ properties of the job sets
Terminal == {SUCCESS, FAILED, CANCELLED}

\* No stop() is in progress and the manager does not run: before the first
\* start(), or after a stop() returned.
Stopped == ~running /\ ~stopping

\* C32: every job in completed_jobs has a terminal status, and once stop()
\* has returned no job is in active_jobs or has status running.
C32_CompletedAreTerminal ==
    /\ \A id \in JobIds : InDict(completed_jobs, id) => job[id].status \in Terminal
    /\ Stopped => /\ active_jobs = <<>>
                  /\ \A id \in JobIds : job[id].status # RUNNING

\* ------------------------------- properties of the polls that notify
\* C33: every change a poll has persisted is notified in the end, by that
\* poll or, when its notification failed, by a later one.
C33_PersistedIsNotified ==
    \A v \in Versions \ {0} :
        (db_content_hash = ContentHash(v)) ~> (notified[v] > 0)

\* ------------------------------------- properties of the own messages
\* C34: an event raised by notify_change in a process that also runs the
\* broker listener reaches each connection at most once: no connection is
\* sent the same event a second time when the listener takes the process's
\* own published message.
C34_DeliveredOnce ==
    \A c \in ConnIds, e \in EntityIds : copies[c][e] <= 1

\* ------------------------------------------ properties of update_config
\* C39: an update_config call whose argument has a key the configuration
\* does not have raises, leaves every configuration value as it was (those
\* of the valid keys of the same argument too) and sends no event; a call
\* with existing keys only changes exactly those keys to the given values.
C39_UpdateAllOrNothing ==
    update_outcome # "none" =>
        IF DOMAIN new_config \ DOMAIN config_before # {}
        THEN /\ update_outcome = "ValueError"
             /\ config = config_before
             /\ ~event_sent
        ELSE /\ update_outcome # "ValueError"
             /\ DOMAIN config = DOMAIN config_before
             /\ \A k \in DOMAIN config :
                    config[k] = IF k \in DOMAIN new_config THEN new_config[k]
                                ELSE config_before[k]

\* A call with a valid and an unknown key has been refused, after an
\* earlier call had changed the configuration.
C39_Witness ==
    /\ update_outcome = "ValueError"
    /\ DOMAIN new_config = {"dws_polling_interval", "polling_interval"}
    /\ config["retry_attempts"] = 5
    /\ config["dws_polling_interval"] = dws_polling_interval
    /\ new_config["dws_polling_interval"] = 60

\* ------------------------------ properties of the completed-job history
\* C38: completed_jobs never holds more than job_history_limit entries,
\* however many jobs complete between two cleanup passes.
C38_HistoryWithinLimit == kept_recent + kept_aged <= job_history_limit

\* --------------------------------- properties of the Treasury client
\* C37: while a Treasury sync of the loop or of trigger_immediate_sync is
\* in flight, self.session is the client that sync opened, and that client
\* is open: an overlapping sync of the other neither replaces nor closes it.
C37_SessionKeptForSync ==
    \A u \in Users :
        treasury_pc[u] = "polling" =>
            /\ session = own_client[u]
            /\ session \in open_clients

\* ------------------------------------ properties of the two notifier tables
\* C36: in every state the connection ids with a subscription entry are
\* exactly the ids in the live-connection table, whatever the order of
\* connect, subscribe, disconnect and broadcasts.
C36_EntriesAreConnections ==
    DictKeys(subscriptions) = DictKeys(active_connections)

\* A broadcast has disconnected connection 1, which failed, while the
\* second connection keeps its subscriptions.
C36_Witness ==
    /\ call.outcome = "returned"
    /\ 1 \in call.failed
    /\ DictKeys(active_connections) = {2}
    /\ DictKeys(subscriptions) = {2}
    /\ DictValue(subscriptions, 2) # {}

\* -------------------------------------------- properties of get_job_status
\* submit_job returns: the heap push did not raise and the notification
\* was sent.
SubmitReturns ==
    \E t \in JobTypes, p \in Priorities :
        /\ SubmitJob(t, p, TRUE)
        /\ HeapPush(job_queue, [priority |-> p, job |-> n_submitted + 1]).ok

\* C35: once submit_job has returned a job id, get_job_status on that id
\* returns a view of the job, with status pending while it waits in the
\* queue; the endpoint never answers not-found for it.
C35_SubmittedJobHasStatus ==
    [][SubmitReturns =>
          /\ GetEtlJobStatus(n_submitted + 1)' = "200"
          /\ GetJobStatus(n_submitted + 1)'.status = PENDING]_vars

\* ----------------------------------------------- properties of get_metrics
\* The job records with one of the given statuses.
WithStatus(S) == {id \in JobIds : job[id].status \in S}

\* C21: the figures get_metrics returns agree with the job records:
\* total_jobs_processed is the number of records in a terminal status,
\* successful_jobs the number with status success, failed_jobs the number
\* with status failed.
C21_MetricsFromRecords ==
    /\ GetMetrics.total_jobs_processed
          = Cardinality(WithStatus({SUCCESS, FAILED, CANCELLED}))
    /\ GetMetrics.successful_jobs = Cardinality(WithStatus({SUCCESS}))
    /\ GetMetrics.failed_jobs = Cardinality(WithStatus({FAILED}))

\* ---------------------------------------------- properties of get_all_jobs
Limits == 0..MaxLimit

\* C20: get_all_jobs(limit) returns at most limit entries, the active jobs
\* first and then the completed ones in descending order of completion time,
\* for every limit >= 0 and any number of active jobs.
C20_AtMostLimit ==
    \A limit \in Limits :
        LET r == GetAllJobs(limit)
        IN  /\ Len(r.active) + Len(r.completed) <= limit
            /\ \A i, j \in DOMAIN r.completed :
                  i < j => job[r.completed[i]].completed_at
                              >= job[r.completed[j]].completed_at

\* ------------------------------------------------ properties of retry_job
\* The job retry_job was called for passed the guard of the call.
RetryAllowed == ret.listed /\ ret.pre = FAILED /\ ret.count < max_retries

\* C11: retry_job returns true only for a job in the history with status
\* failed and retry_count < max_retries; in every other case it returns false
\* and leaves the queue, the history and the job unchanged; and no job's
\* retry_count ever exceeds max_retries.
C11_RetryOnlyFailedUnderLimit ==
    /\ ret.op = "retry"
          => /\ ret.value = "True" => RetryAllowed
             /\ ~RetryAllowed => ret.value = "False" /\ ret.same
    /\ \A id \in JobIds : job[id].retry_count <= max_retries

\* retry_job was refused for a failed job in the history that has used up
\* its retries.
C11_Witness ==
    /\ ret.op = "retry"
    /\ ret.value = "False"
    /\ ret.listed
    /\ ret.pre = FAILED
    /\ ret.count = max_retries

\* ------------------------------------------- properties of failing handlers
QueuedIn(q, id) == \E i \in DOMAIN q : q[i].job = id

\* A worker dequeues job id, whose type no handler exists for.
UnknownTypeDequeued(id) ==
    /\ WorkerGet
    /\ HeapPop(job_queue).ok
    /\ HeapPop(job_queue).item.job = id
    /\ job[id].job_type \notin KnownJobTypes

\* C12: when the handler of a job raises (or the job's type is unknown) the
\* job ends failed with the error text as error_message, in completed_jobs,
\* out of active_jobs and not in the queue; and a failed job leaves status
\* failed or enters the queue again only by a retry_job, which counts a retry.
C12_FailedNotRequeued ==
    [][\A id \in JobIds :
          /\ (HandlerRaise(id) \/ UnknownTypeDequeued(id))
                => /\ job'[id].status = FAILED
                   /\ job'[id].error_message = "error"
                   /\ InDict(completed_jobs', id)
                   /\ ~InDict(active_jobs', id)
                   /\ ~QueuedIn(job_queue', id)
          /\ (/\ job[id].status = FAILED
              /\ \/ job'[id].status # FAILED
                 \/ QueuedIn(job_queue', id) /\ ~QueuedIn(job_queue, id))
                => job'[id].retry_count = job[id].retry_count + 1]_vars

\* A job whose handler raised lies failed in the history, never retried.
C12_Witness ==
    \E id \in JobIds :
        /\ job[id].job_type \in KnownJobTypes
        /\ job[id].status = FAILED
        /\ job[id].error_message = "error"
        /\ job[id].retry_count = 0
        /\ InDict(completed_jobs, id)

\* -------------------------------------------- properties of the scheduler
\* C13: within one failure streak of a loop the delay slept after a failure
\* is never shorter than the delay after the failure before it, and never
\* above the cap, whatever the maintenance loop does in between; a success
\* leaves the loop's error count at 0, and the first failure after it sleeps
\* the base delay.
C13_BackoffMonotone ==
    [][\A l \in Loops :
          /\ last_delay'[l] <= backoff_cap
          /\ (streak[l] >= 1 /\ streak'[l] = streak[l] + 1)
                => last_delay'[l] >= last_delay[l]
          /\ (loop_pc[l] = "syncing" /\ streak'[l] = 0) => error_counts'[l] = 0
          /\ (streak[l] = 0 /\ streak'[l] = 1) => last_delay'[l] = backoff_base]_vars

\* C14: in each of the three loops the delay slept after the k-th failure in
\* a row is min(300 * 2^(k-1), 3600) seconds.
C14_BackoffSchedule ==
    \A l \in Loops :
        streak[l] >= 1
            => last_delay[l] = Min2(backoff_base * Pow2(streak[l] - 1), backoff_cap)

\* Every other source is healthy again and again.
SourcesIndependent ==
    \A l \in GoodSources : []<>(health_status[l] = "healthy")

\* Whenever the pool runs, a worker is waiting on the queue at some later
\* time.
WorkersKeepDequeuing == [](running => <>(worker.idle > 0))

\* C16: a source whose sync always fails or never returns does not block the
\* others: every other source's loop completes a sync and is healthy
\* infinitely often, and the workers of the pool keep dequeuing jobs.
C16_FailingSourceBlocksNobody == SourcesIndependent /\ WorkersKeepDequeuing

=============================================================================
